---- MODULE Spec2Model ----
(***************************************************************************)
(* The sender side of Homa message transmission (homa_outgoing.c): the     *)
(* link-idle clock, outbound messages, the data sender, the retransmitter, *)
(* the throttled list and the pacer thread.                                *)
(*                                                                         *)
(* Specifications:                                                         *)
(*   SpecIdle  concurrent callers of homa_update_idle_time, one step per   *)
(*             memory access of its compare-and-swap loop.                 *)
(*   SpecAdd   whole calls of homa_add_to_throttled and of                 *)
(*             homa_message_out_reset, one after the other, from an empty  *)
(*             throttled list.                                             *)
(*   Spec      two RPCs: their sender threads (each under its socket       *)
(*             lock), grants, the pacer thread and the cycle clock,        *)
(*             interleaved.                                                *)
(*   SpecOne   one RPC: its sender thread, grants, resets, the             *)
(*             retransmitter, the pacer thread and the cycle clock.        *)
(*   FairSpecStop  one RPC, the pacer and homa_pacer_stop, with the        *)
(*             fairness of the kernel scheduler.                           *)
(*   SpecXmit  one RPC of 200, 1600 or 4200 bytes, with the NIC queue      *)
(*             empty or long and HOMA_FLAG_DONT_THROTTLE set or clear.     *)
(*   SpecMsg   the life of one message: sends, grants, resets,             *)
(*             retransmissions and the IP stack's releases.                *)
(*   SpecErr   one RPC, where ip_queue_xmit may return an error.           *)
(*   SpecInit  one call of homa_message_out_init, one step per buffer,     *)
(*             where allocations and copies may fail.                      *)
(*   SpecResend  homa_resend_data called with any range, empty ranges      *)
(*             included.                                                   *)
(*   SpecCtl   SpecXmit with calls of homa_xmit_control, whose allocation  *)
(*             and transmission may fail.                                  *)
(*   SpecLife  SpecInit with calls of homa_message_out_destroy.            *)
(*   SpecTwo   Spec with calls of homa_message_out_reset.                  *)
(*   FairSpec  Spec with the fairness of the kernel scheduler and an       *)
(*             advancing clock.                                            *)
(*   SpecPos   SpecMsg where ip_queue_xmit may return an error.            *)
(***************************************************************************)
EXTENDS Integers, Sequences, FiniteSets, TLC

(***************************************************************************)
(* Program constants and configuration values.                             *)
(***************************************************************************)
HOMA_MAX_DATA_PER_PACKET == 1400

HOMA_MAX_MESSAGE_LENGTH == 1000000

\* sizeof(struct data_header): a packet of 1400 data bytes has length 1428.
DATA_HEADER_LENGTH == 28

\* HOMA_MAX_IPV4_HEADER + HOMA_VLAN_HEADER + HOMA_ETH_OVERHEAD.
HOMA_WIRE_OVERHEAD == 104

cycles_per_kbyte == 1000

max_nic_queue_cycles == 2000

throttle_min_bytes == 200

rtt_bytes == 1000

\* homa_unsched_priority(peer, length) for the default cutoffs.
UNSCHED_PRIORITY == 6

\* homa->max_prio, the priority of control packets.
max_prio == 7

\* The length every control packet is padded to.
HOMA_MAX_HEADER == 48

(***************************************************************************)
(* Bounds of the model.                                                    *)
(***************************************************************************)
\* The clock stops after MaxTicks ticks, unless the NIC queue is still longer
\* than max_nic_queue_cycles.
MaxTicks == 2

\* Callers of homa_update_idle_time in SpecIdle, and calls per caller.
NumCallers == 2

MaxCalls == 1

\* RPCs of SpecAdd, and the packets an RPC may have sent before SpecAdd starts.
NumAddRpcs == 3

MaxSent == 1

\* homa_message_out_reset calls, and homa_resend_data calls, in one run.
MaxResets == 1

MaxResends == 1

NULL == 0

NONE == -1

\* Thread ids: the pacer is thread 0, the sender thread of RPC r is thread r.
PACER == 0

Max(a, b) == IF a >= b THEN a ELSE b

Min(a, b) == IF a <= b THEN a ELSE b

VARIABLES
    now,              \* get_cycles()
    link_idle_time,   \* homa->link_idle_time
    upc, ubytes, uclock, uold, ucalls,   \* homa_update_idle_time callers
    uexpect, ujumped, \* history: initial link_idle_time plus the cycles of the
                      \* completed calls; whether a call saw old_idle < clock
    msgout,           \* rpc->msgout, per RPC (length -1: no message)
    throttled_rpcs,   \* homa->throttled_rpcs, head first
    throttled_links,  \* !list_empty(&rpc->throttled_links), per RPC
    last_added,       \* history: the RPC last inserted, while it is on the list
    throttle_lock,    \* holder of homa->throttle_lock
    sock,             \* per RPC, its socket's lock: free, user (owned), bh
    pc,               \* per thread, its position
    cur,              \* the RPC the pacer took from the head of the list
    rs,               \* per RPC, homa_resend_data's arguments and cursor
    pacer_exit,       \* homa->pacer_exit
    pacer_task,       \* the pacer's task state
    stop_pc,          \* position of the homa_pacer_stop caller
    dont_throttle,    \* homa->flags & HOMA_FLAG_DONT_THROTTLE
    users,            \* per RPC and packet buffer, skb->users (reference count)
    resent_packets,   \* the metric resent_packets
    ip_errors,        \* calls of ip_queue_xmit that may still fail
    ini,              \* the call of homa_message_out_init under way, if any
    data_xmit_errors, \* the metric data_xmit_errors
    control_xmit_errors,  \* the metric control_xmit_errors
    ctl,              \* the last call of __homa_xmit_control and its outcome
    last_pkt,         \* the packet buffer a sender visits in this step, if any
    max_orig,         \* history, per RPC: the highest offset homa_xmit_data has
                      \* sent as an original transmission (-1: none)
    max_orig_reset,   \* the same, since the last homa_message_out_reset
    nresets, nresends \* history: calls made so far

idlevars == <<upc, ubytes, uclock, uold, ucalls, uexpect, ujumped>>

listvars == <<throttled_rpcs, throttled_links, throttle_lock, last_added>>

pacervars == <<pacer_exit, pacer_task, stop_pc>>

histvars == <<max_orig, max_orig_reset, nresets, nresends>>

ctlvars == <<control_xmit_errors, ctl>>

vars == <<now, link_idle_time, idlevars, msgout, listvars, sock, pc, cur, rs,
          pacervars, dont_throttle, users, resent_packets, ip_errors, ini, data_xmit_errors, ctlvars, last_pkt, histvars>>

(***************************************************************************)
(* homa_update_idle_time                                                   *)
(***************************************************************************)
\* cycles_for_packet for a packet of `bytes` bytes after the IP header.
CyclesForPacket(bytes) ==
    ((bytes + HOMA_WIRE_OVERHEAD) * cycles_per_kbyte) \div 1000

NewIdleNoMax(old_idle, clock, bytes) == old_idle + CyclesForPacket(bytes)

\* new_idle, from the values read of link_idle_time and of the clock.
NewIdle(old_idle, clock, bytes) ==
    IF old_idle < clock
    THEN clock + CyclesForPacket(bytes)
    ELSE old_idle + CyclesForPacket(bytes)

\* Cycles added to the clock by one Tick: the wire time of a full data packet.
TickCycles ==
    CyclesForPacket(DATA_HEADER_LENGTH + HOMA_MAX_DATA_PER_PACKET)

CmpxchgAlways(current, old_idle) == TRUE

\* atomic_long_cmpxchg_relaxed(&link_idle_time, old_idle, new_idle) == old_idle.
CmpxchgSucceeds(current, old_idle) == current = old_idle

(***************************************************************************)
(* Outbound messages                                                       *)
(***************************************************************************)
RPCS == 1 .. NumAddRpcs

\* The RPCs that send in Spec, and the message lengths they are created with.
MainRpcs == {1, 2}

MainLength(r) == IF r = 1 THEN 4200 ELSE 1400

\* The message length of the RPC of SpecOne and FairSpecStop.
OneLength == 2 * HOMA_MAX_DATA_PER_PACKET

CALLERS == 1 .. NumCallers

\* The packet buffers homa_message_out_init builds for the last bytes_left
\* bytes of a message of `length` bytes: each buffer's header offset and size.
RECURSIVE InitPackets(_, _)
InitPackets(length, bytes_left) ==
    IF bytes_left > 0
    THEN LET cur_size == IF HOMA_MAX_DATA_PER_PACKET > bytes_left
                         THEN bytes_left
                         ELSE HOMA_MAX_DATA_PER_PACKET
         IN  <<[offset |-> length - bytes_left, size |-> cur_size]>>
             \o InitPackets(length, bytes_left - HOMA_MAX_DATA_PER_PACKET)
    ELSE <<>>

\* rpc->msgout after a successful homa_message_out_init(len).
MessageOutInit(len) ==
    LET pkts == InitPackets(len, len)
    IN  [length         |-> len,
         packets        |-> pkts,
         next_packet    |-> IF pkts = <<>> THEN NULL ELSE 1,
         next_offset    |-> 0,
         unscheduled    |-> rtt_bytes,
         granted        |-> IF rtt_bytes > len THEN len ELSE rtt_bytes,
         sched_priority |-> 0]

\* An RPC without an outbound message.
NoMessage ==
    [length |-> -1, packets |-> <<>>, next_packet |-> NULL, next_offset |-> 0,
     unscheduled |-> 0, granted |-> 0, sched_priority |-> 0]

NextSkbStay(m, skb) == skb

\* *homa_next_skb(skb): the buffer after buffer `skb` of message m.
NextSkb(m, skb) == IF skb < Len(m.packets) THEN skb + 1 ELSE NULL

MessageOutResetKeepPacket(m) ==
    [m EXCEPT !.next_offset = 0,
              !.granted = IF m.unscheduled > m.length THEN m.length
                          ELSE m.unscheduled]

MessageOutResetNoClamp(m) ==
    [m EXCEPT !.next_packet = IF m.packets = <<>> THEN NULL ELSE 1,
              !.next_offset = 0,
              !.granted = m.unscheduled]

\* homa_message_out_reset.
MessageOutReset(m) ==
    [m EXCEPT !.next_packet = IF m.packets = <<>> THEN NULL ELSE 1,
              !.next_offset = 0,
              !.granted = IF m.unscheduled > m.length THEN m.length
                          ELSE m.unscheduled]

\* skb->tail - skb->transport_header of buffer `skb` of message m.
WireBytes(m, skb) == DATA_HEADER_LENGTH + m.packets[skb].size

\* length - next_offset, the key the throttled list is ordered by.
Remaining(m) == m.length - m.next_offset

(***************************************************************************)
(* homa_xmit_data: the pieces of one iteration of its loop.                *)
(***************************************************************************)
\* The loop's condition.
XmitMore(m) == m.next_offset < m.granted /\ m.next_packet # NULL

MustThrottleNoMin(m, clock, idle, flag) ==
    /\ (clock + max_nic_queue_cycles) < idle
    /\ ~flag

MustThrottleReversed(m, clock, idle, flag) ==
    /\ (m.length - m.next_offset) > throttle_min_bytes
    /\ (clock + max_nic_queue_cycles) > idle
    /\ ~flag

\* The test that sends the RPC to the throttled list.
MustThrottle(m, clock, idle, flag) ==
    /\ (m.length - m.next_offset) > throttle_min_bytes
    /\ (clock + max_nic_queue_cycles) < idle
    /\ ~flag

XmitPriorityUnsched(m) == UNSCHED_PRIORITY

\* The priority chosen for the packet at next_offset.
XmitPriority(m) ==
    IF m.next_offset < m.unscheduled THEN UNSCHED_PRIORITY
    ELSE m.sched_priority

XmitAdvanceStay(m) == m

\* next_packet and next_offset after the iteration.
XmitAdvance(m) ==
    [m EXCEPT !.next_packet = NextSkb(m, m.next_packet),
              !.next_offset = m.next_offset + HOMA_MAX_DATA_PER_PACKET]

DrainedAlways(m) == TRUE

\* The test homa_pacer_xmit makes after homa_xmit_data returns.
Drained(m) == m.next_offset >= m.granted \/ m.next_packet = NULL

(***************************************************************************)
(* homa_add_to_throttled: the scan and the insertion, under throttle_lock. *)
(***************************************************************************)
ScanTail(list, msgs, r, i) == Len(list) + 1

RECURSIVE ScanBeforeEqual(_, _, _, _)
ScanBeforeEqual(list, msgs, r, i) ==
    IF i > Len(list) THEN i
    ELSE IF (msgs[list[i]].length - msgs[list[i]].next_offset)
                >= (msgs[r].length - msgs[r].next_offset) THEN i
    ELSE ScanBeforeEqual(list, msgs, r, i + 1)

NeverLinked(links, r) == FALSE

AlwaysLinked(links, r) == TRUE

\* !list_empty(&rpc->throttled_links)
AlreadyLinked(links, r) == links[r]

\* Index of the first candidate of `list` with more remaining bytes than
\* rpc r, or Len(list) + 1 when there is none.
RECURSIVE ScanThrottled(_, _, _, _)
ScanThrottled(list, msgs, r, i) ==
    IF i > Len(list) THEN i
    ELSE IF Remaining(msgs[list[i]]) > Remaining(msgs[r]) THEN i
    ELSE ScanThrottled(list, msgs, r, i + 1)

\* list_add_tail_rcu before that candidate, or at the tail of the list.
InsertThrottled(list, msgs, r) ==
    LET i == ScanThrottled(list, msgs, r, 1)
    IN  SubSeq(list, 1, i - 1) \o <<r>> \o SubSeq(list, i, Len(list))

\* A list from which nothing is unlinked.
DeleteThrottledNone(list, r) == list

\* list_del_rcu of rpc r.
RECURSIVE DeleteThrottled(_, _)
DeleteThrottled(list, r) ==
    IF list = <<>> THEN <<>>
    ELSE IF Head(list) = r THEN DeleteThrottled(Tail(list), r)
    ELSE <<Head(list)>> \o DeleteThrottled(Tail(list), r)

\* The packets a sender hands to ip_queue_xmit or skips, as last_pkt records.
NoPacket ==
    [rpc |-> 0, offset |-> -1, retransmit |-> 0, priority |-> 0,
     shared |-> FALSE, err |-> FALSE, backed_up |-> FALSE]

Visit(r, off, retrans, prio, sh, err) ==
    [rpc |-> r, offset |-> off,
     retransmit |-> retrans, priority |-> prio, shared |-> sh, err |-> err,
     backed_up |-> (now + max_nic_queue_cycles) < link_idle_time]

SkbSharedNever(u) == FALSE

\* skb_shared(skb): the buffer has a holder besides the message.
SkbShared(u) == u # 1

\* skb->users after __homa_xmit_data: skb_get adds a reference, which the IP
\* stack keeps until it is done with the buffer; after an error of
\* ip_queue_xmit the reference is already gone (or kfree_skb drops it).
AfterXmit(u, err) == IF err THEN u ELSE u + 1

ErrorsAfterXmitNone(n, err) == n

\* data_xmit_errors after __homa_xmit_data: INC_METRIC when ip_queue_xmit
\* returned an error.
ErrorsAfterXmit(n, err) == IF err THEN n + 1 ELSE n

IdleAfterXmitOkOnly(idle, clock, bytes, err) ==
    IF err THEN idle ELSE NewIdle(idle, clock, bytes)

\* link_idle_time after __homa_xmit_data: homa_update_idle_time is called
\* whatever ip_queue_xmit returned.
IdleAfterXmit(idle, clock, bytes, err) == NewIdle(idle, clock, bytes)

\* The outcomes of ip_queue_xmit (TRUE: an error), while `left` calls may fail.
IpQueueXmit(left) == IF left > 0 THEN BOOLEAN ELSE {FALSE}

\* No call of __homa_xmit_control has been made.
NoControl ==
    [calls |-> 0, rpc |-> 0, result |-> "none", submitted |-> 0,
     priority |-> 0, bytes |-> 0, counted |-> "none",
     backed_up |-> FALSE, throttled |-> FALSE]

\* No call of homa_message_out_init is under way.
NoInit ==
    [pc |-> "idle", len |-> 0, bytes_left |-> 0, msg |-> NoMessage,
     skbs |-> <<>>, linked |-> <<>>, err |-> "none", destroys |-> 0]

(***************************************************************************)
(* Initial values of the parts of the state a specification leaves alone.  *)
(***************************************************************************)
IdleQuiet ==
    /\ upc = [t \in CALLERS |-> "idle"]
    /\ ubytes = [t \in CALLERS |-> 0]
    /\ uclock = [t \in CALLERS |-> 0]
    /\ uold = [t \in CALLERS |-> 0]
    /\ ucalls = [t \in CALLERS |-> 0]
    /\ uexpect = link_idle_time
    /\ ujumped = FALSE

SendersQuiet ==
    /\ users = [r \in RPCS |-> [i \in 1 .. Len(msgout[r].packets) |-> 1]]
    /\ resent_packets = 0
    /\ ini = NoInit
    /\ data_xmit_errors = 0
    /\ control_xmit_errors = 0
    /\ ctl = NoControl
    /\ throttled_rpcs = <<>>
    /\ throttled_links = [r \in RPCS |-> FALSE]
    /\ last_added = NULL
    /\ throttle_lock = NONE
    /\ sock = [r \in RPCS |-> "free"]
    /\ pc = [t \in {PACER} \cup RPCS |-> IF t = PACER THEN "test_exit" ELSE "idle"]
    /\ cur = NULL
    /\ rs = [r \in RPCS |-> [start |-> 0, end |-> 0, priority |-> 0, skb |-> NULL]]
    /\ pacer_exit = FALSE
    /\ pacer_task = "RUNNING"
    /\ stop_pc = "idle"
    /\ last_pkt = NoPacket
    /\ max_orig = [r \in RPCS |-> -1]
    /\ max_orig_reset = [r \in RPCS |-> -1]
    /\ nresets = 0
    /\ nresends = 0

(***************************************************************************)
(* The cycle clock: get_cycles() never goes back.                          *)
(***************************************************************************)
Tick ==
    /\ \/ now < MaxTicks * TickCycles
       \/ (now + max_nic_queue_cycles) < link_idle_time
    /\ now' = now + TickCycles
    /\ last_pkt' = NoPacket
    /\ UNCHANGED <<link_idle_time, idlevars, msgout, listvars, sock, pc, cur,
                   rs, pacervars, dont_throttle, users, resent_packets, ip_errors, ini, data_xmit_errors, ctlvars, histvars>>

(***************************************************************************)
(* SpecIdle: homa_update_idle_time, one step per shared-memory access.     *)
(***************************************************************************)
\* The value of skb->tail - skb->transport_header caller t passes: the first
\* caller sends 200-byte data packets, the others full ones.
IdleBytes(t) ==
    IF t = 1 THEN DATA_HEADER_LENGTH + 200
    ELSE DATA_HEADER_LENGTH + HOMA_MAX_DATA_PER_PACKET

mainvars == <<msgout, listvars, sock, pc, cur, rs, pacervars, dont_throttle, users, resent_packets, ip_errors, ini, data_xmit_errors, ctlvars,
              last_pkt, histvars>>

InitIdle ==
    /\ now = 0
    /\ link_idle_time \in {0, MaxTicks * TickCycles + max_nic_queue_cycles}
    /\ IdleQuiet
    /\ msgout = [r \in RPCS |-> NoMessage]
    /\ dont_throttle = FALSE
    /\ SendersQuiet
    /\ ip_errors = 0

\* A caller enters homa_update_idle_time(bytes).
IdleCall(t) ==
    /\ upc[t] = "idle"
    /\ ucalls[t] < MaxCalls
    /\ ubytes' = [ubytes EXCEPT ![t] = IdleBytes(t)]
    /\ upc' = [upc EXCEPT ![t] = "read_clock"]
    /\ UNCHANGED <<now, link_idle_time, uclock, uold, ucalls, uexpect, ujumped,
                   mainvars>>

\* clock = get_cycles()
IdleReadClock(t) ==
    /\ upc[t] = "read_clock"
    /\ uclock' = [uclock EXCEPT ![t] = now]
    /\ upc' = [upc EXCEPT ![t] = "read_idle"]
    /\ UNCHANGED <<now, link_idle_time, ubytes, uold, ucalls, uexpect, ujumped,
                   mainvars>>

\* old_idle = atomic_long_read(&homa->link_idle_time)
IdleReadIdle(t) ==
    /\ upc[t] = "read_idle"
    /\ uold' = [uold EXCEPT ![t] = link_idle_time]
    /\ upc' = [upc EXCEPT ![t] = "cmpxchg"]
    /\ UNCHANGED <<now, link_idle_time, ubytes, uclock, ucalls, uexpect,
                   ujumped, mainvars>>

\* The compare-and-swap stores new_idle and the call returns.
IdleCasOk(t) ==
    /\ upc[t] = "cmpxchg"
    /\ CmpxchgSucceeds(link_idle_time, uold[t])
    /\ link_idle_time' = NewIdle(uold[t], uclock[t], ubytes[t])
    /\ upc' = [upc EXCEPT ![t] = "idle"]
    /\ ucalls' = [ucalls EXCEPT ![t] = @ + 1]
    /\ uexpect' = uexpect + CyclesForPacket(ubytes[t])
    /\ ujumped' = (ujumped \/ uold[t] < uclock[t])
    /\ ubytes' = [ubytes EXCEPT ![t] = 0]
    /\ uclock' = [uclock EXCEPT ![t] = 0]
    /\ uold' = [uold EXCEPT ![t] = 0]
    /\ UNCHANGED <<now, mainvars>>

\* The compare-and-swap fails: the loop starts over.
IdleCasRetry(t) ==
    /\ upc[t] = "cmpxchg"
    /\ ~CmpxchgSucceeds(link_idle_time, uold[t])
    /\ upc' = [upc EXCEPT ![t] = "read_clock"]
    /\ UNCHANGED <<now, link_idle_time, ubytes, uclock, uold, ucalls, uexpect,
                   ujumped, mainvars>>

TickIdle == Tick

NextIdle ==
    \/ TickIdle
    \/ \E t \in CALLERS : IdleCall(t)
    \/ \E t \in CALLERS : IdleReadClock(t)
    \/ \E t \in CALLERS : IdleReadIdle(t)
    \/ \E t \in CALLERS : IdleCasOk(t)
    \/ \E t \in CALLERS : IdleCasRetry(t)

SpecIdle == InitIdle /\ [][NextIdle]_vars

\* C1: in every step, whatever the interleaving of the callers of
\* homa_update_idle_time and of the (monotonic) clock, link_idle_time is not
\* smaller than it was.
C1_IdleTimeMonotonic == [][link_idle_time' >= link_idle_time]_vars

\* A caller is about to fail its compare-and-swap: another caller has moved
\* link_idle_time since this one read it.
C1_Witness ==
    \E t \in CALLERS :
        /\ upc[t] = "cmpxchg"
        /\ link_idle_time > uold[t]
        /\ now > uclock[t]

\* C2: the step in which a call's compare-and-swap succeeds sets
\* link_idle_time to max(link_idle_time, clock) + cycles, from the value
\* link_idle_time has just before that step, the clock the call read and
\* cycles = (bytes + 104) * cycles_per_kbyte / 1000; and as long as every
\* completed call found link_idle_time >= its clock, link_idle_time is its
\* initial value plus the sum of the cycles of the completed calls.
C2_AtomicAdvance ==
    /\ [][\A t \in CALLERS :
            ucalls'[t] # ucalls[t] =>
                link_idle_time' =
                    Max(link_idle_time, uclock[t])
                    + ((ubytes[t] + HOMA_WIRE_OVERHEAD) * cycles_per_kbyte)
                      \div 1000]_vars
    /\ [](~ujumped => link_idle_time = uexpect)
    /\ [](NewIdle(10000, 5000, 1000) = 11104 /\ NewIdle(10000, 20000, 200) = 20304)

\* Every caller has completed a call, the clock has moved, and no call found
\* the link idle.
C2_Witness ==
    /\ \A t \in CALLERS : ucalls[t] >= 1
    /\ ~ujumped
    /\ now > 0
    /\ link_idle_time > MaxTicks * TickCycles + max_nic_queue_cycles

(***************************************************************************)
(* Sender threads.  Thread r works on RPC r and holds its socket (sock[r]  *)
(* is "user") for the length of each call; the pacer works on the RPC it   *)
(* took from the head of the throttled list (cur) with the socket's        *)
(* spinlock held (sock[cur] is "bh").                                      *)
(***************************************************************************)
THREADS == {PACER} \cup RPCS

RpcOf(t) == IF t = PACER THEN cur ELSE t

\* The caller's side of homa_xmit_data: lock_sock, then the call.
XmitBegin(r) ==
    /\ msgout[r].length >= 0
    /\ pc[r] = "idle"
    /\ sock[r] = "free"
    /\ sock' = [sock EXCEPT ![r] = "user"]
    /\ pc' = [pc EXCEPT ![r] = "xmit_loop"]
    /\ last_pkt' = NoPacket
    /\ UNCHANGED <<now, link_idle_time, idlevars, msgout, listvars, cur, rs,
                   pacervars, dont_throttle, users, resent_packets, ip_errors, ini, data_xmit_errors, ctlvars, histvars>>

\* homa_xmit_data: the loop's condition is false and the function returns.
XmitExit(t) ==
    /\ pc[t] = "xmit_loop"
    /\ ~XmitMore(msgout[RpcOf(t)])
    /\ pc' = [pc EXCEPT ![t] = "xmit_ret"]
    /\ last_pkt' = NoPacket
    /\ UNCHANGED <<now, link_idle_time, idlevars, msgout, listvars, sock, cur,
                   rs, pacervars, dont_throttle, users, resent_packets, ip_errors, ini, data_xmit_errors, ctlvars, histvars>>

\* homa_xmit_data: the NIC queue is too long; on to homa_add_to_throttled.
XmitThrottle(t) ==
    /\ pc[t] = "xmit_loop"
    /\ XmitMore(msgout[RpcOf(t)])
    /\ MustThrottle(msgout[RpcOf(t)], now, link_idle_time, dont_throttle)
    /\ pc' = [pc EXCEPT ![t] = "add_check"]
    /\ last_pkt' = NoPacket
    /\ UNCHANGED <<now, link_idle_time, idlevars, msgout, listvars, sock, cur,
                   rs, pacervars, dont_throttle, users, resent_packets, ip_errors, ini, data_xmit_errors, ctlvars, histvars>>

\* homa_xmit_data past the throttle test: next_packet and next_offset move on;
\* a shared buffer is passed over, any other gets its priority, retransmit = 0
\* and goes to __homa_xmit_data, which takes a reference, hands the buffer to
\* ip_queue_xmit (which may fail) and calls homa_update_idle_time.
XmitPacket(t) ==
    LET r == RpcOf(t)
        m == msgout[r]
        skb == m.next_packet
        off == m.packets[skb].offset
    IN  /\ pc[t] = "xmit_loop"
        /\ XmitMore(m)
        /\ ~MustThrottle(m, now, link_idle_time, dont_throttle)
        /\ msgout' = [msgout EXCEPT ![r] = XmitAdvance(m)]
        /\ IF SkbShared(users[r][skb])
           THEN /\ last_pkt' = Visit(r, off, 0, XmitPriority(m), TRUE, FALSE)
                /\ UNCHANGED <<link_idle_time, users, ip_errors,
                               data_xmit_errors, max_orig,
                               max_orig_reset>>
           ELSE \E err \in IpQueueXmit(ip_errors) :
                /\ users' = [users EXCEPT ![r][skb] = AfterXmit(@, err)]
                /\ ip_errors' = IF err THEN ip_errors - 1 ELSE ip_errors
                /\ data_xmit_errors' = ErrorsAfterXmit(data_xmit_errors, err)
                /\ link_idle_time' = IdleAfterXmit(link_idle_time, now,
                                                   WireBytes(m, skb), err)
                /\ last_pkt' = Visit(r, off, 0, XmitPriority(m), FALSE, err)
                /\ max_orig' = [max_orig EXCEPT ![r] = Max(@, off)]
                /\ max_orig_reset' = [max_orig_reset EXCEPT ![r] = Max(@, off)]
        /\ UNCHANGED <<now, idlevars, listvars, sock, pc, cur, rs, pacervars,
                       dont_throttle, nresets, nresends, resent_packets, ini,
                       ctlvars>>

\* homa_add_to_throttled: the test of rpc->throttled_links, made before
\* throttle_lock is taken.
AddCheck(t) ==
    /\ pc[t] = "add_check"
    /\ pc' = [pc EXCEPT ![t] = IF AlreadyLinked(throttled_links, RpcOf(t))
                                THEN "xmit_ret"
                                ELSE "add_lock"]
    /\ last_pkt' = NoPacket
    /\ UNCHANGED <<now, link_idle_time, idlevars, msgout, listvars, sock, cur,
                   rs, pacervars, dont_throttle, users, resent_packets, ip_errors, ini, data_xmit_errors, ctlvars, histvars>>

\* spin_lock_bh(&homa->throttle_lock)
AddLock(t) ==
    /\ pc[t] = "add_lock"
    /\ throttle_lock = NONE
    /\ throttle_lock' = t
    /\ pc' = [pc EXCEPT ![t] = "add_insert"]
    /\ last_pkt' = NoPacket
    /\ UNCHANGED <<now, link_idle_time, idlevars, msgout, throttled_rpcs,
                   throttled_links, last_added, sock, cur, rs, pacervars,
                   dont_throttle, users, resent_packets, ip_errors, ini, data_xmit_errors, ctlvars, histvars>>

WakeUpProcessNone(task) == task

\* wake_up_process(homa->pacer_kthread): the task is runnable.
WakeUpProcess(task) == "RUNNING"

\* The scan, the insertion and spin_unlock_bh.
AddInsert(t) ==
    /\ pc[t] = "add_insert"
    /\ throttled_rpcs' = InsertThrottled(throttled_rpcs, msgout, RpcOf(t))
    /\ throttled_links' = [throttled_links EXCEPT ![RpcOf(t)] = TRUE]
    /\ last_added' = RpcOf(t)
    /\ throttle_lock' = NONE
    /\ pc' = [pc EXCEPT ![t] = "add_wake"]
    /\ last_pkt' = NoPacket
    /\ UNCHANGED <<now, link_idle_time, idlevars, msgout, sock, cur, rs,
                   pacervars, dont_throttle, users, resent_packets, ip_errors, ini, data_xmit_errors, ctlvars, histvars>>

\* wake_up_process, after the lock is released, and the return.
AddWake(t) ==
    /\ pc[t] = "add_wake"
    /\ pacer_task' = WakeUpProcess(pacer_task)
    /\ pc' = [pc EXCEPT ![t] = "xmit_ret"]
    /\ last_pkt' = NoPacket
    /\ UNCHANGED <<now, link_idle_time, idlevars, msgout, listvars, sock, cur, rs,
                   pacer_exit, stop_pc, dont_throttle, users, resent_packets, ip_errors, ini, data_xmit_errors, ctlvars, histvars>>

\* The caller's side of homa_xmit_data's return: release_sock.
XmitReturn(r) ==
    /\ pc[r] = "xmit_ret"
    /\ pc' = [pc EXCEPT ![r] = "idle"]
    /\ sock' = [sock EXCEPT ![r] = "free"]
    /\ last_pkt' = NoPacket
    /\ UNCHANGED <<now, link_idle_time, idlevars, msgout, listvars, cur, rs,
                   pacervars, dont_throttle, users, resent_packets, ip_errors, ini, data_xmit_errors, ctlvars, histvars>>

(***************************************************************************)
(* The receive path, as far as it changes an outbound message: a grant     *)
(* raises granted and sets sched_priority; a restart resets the message.   *)
(***************************************************************************)
GrantPriorities == {2}

GrantBytes == HOMA_MAX_DATA_PER_PACKET

Grant(r) ==
    /\ msgout[r].length >= 0
    /\ pc[r] = "idle"
    /\ sock[r] = "free"
    /\ msgout[r].granted < msgout[r].length
    /\ \E p \in GrantPriorities :
          msgout' = [msgout EXCEPT
                        ![r].granted = Min(msgout[r].length,
                                           msgout[r].granted + GrantBytes),
                        ![r].sched_priority = p]
    /\ last_pkt' = NoPacket
    /\ UNCHANGED <<now, link_idle_time, idlevars, listvars, sock, pc, cur, rs,
                   pacervars, dont_throttle, users, resent_packets, ip_errors, ini, data_xmit_errors, ctlvars, histvars>>

Reset(r) ==
    /\ msgout[r].length >= 0
    /\ pc[r] = "idle"
    /\ sock[r] = "free"
    /\ nresets < MaxResets
    /\ msgout' = [msgout EXCEPT ![r] = MessageOutReset(msgout[r])]
    /\ max_orig_reset' = [max_orig_reset EXCEPT ![r] = -1]
    /\ nresets' = nresets + 1
    /\ last_pkt' = NoPacket
    /\ UNCHANGED <<now, link_idle_time, idlevars, listvars, sock, pc, cur, rs,
                   pacervars, dont_throttle, users, resent_packets, ip_errors, ini, data_xmit_errors, ctlvars, max_orig, nresends>>

(***************************************************************************)
(* SpecAdd: whole calls of homa_add_to_throttled, and of                   *)
(* homa_message_out_reset, on RPCs that have sent up to MaxSent packets.   *)
(***************************************************************************)
AddLengths == {2 * HOMA_MAX_DATA_PER_PACKET, 3 * HOMA_MAX_DATA_PER_PACKET}

\* Message m after homa_xmit_data has sent its next k packets.
RECURSIVE Sent(_, _)
Sent(m, k) == IF k = 0 THEN m ELSE Sent(XmitAdvance(m), k - 1)

\* The messages of SpecAdd: each has a packet left to send.
AddMessages ==
    {m \in {Sent(MessageOutInit(len), k) : len \in AddLengths, k \in 0 .. MaxSent} :
        m.next_packet # NULL}

InitAdd ==
    /\ now = 0
    /\ link_idle_time = 0
    /\ IdleQuiet
    /\ msgout \in [RPCS -> AddMessages]
    /\ dont_throttle = FALSE
    /\ SendersQuiet
    /\ ip_errors = 0

\* homa_add_to_throttled(rpc), from its entry to its return.
AddCall(r) ==
    /\ pc[r] = "idle"
    /\ throttle_lock = NONE
    /\ IF AlreadyLinked(throttled_links, r)
       THEN UNCHANGED <<throttled_rpcs, throttled_links, last_added,
                        pacer_task>>
       ELSE /\ throttled_rpcs' = InsertThrottled(throttled_rpcs, msgout, r)
            /\ throttled_links' = [throttled_links EXCEPT ![r] = TRUE]
            /\ last_added' = r
            /\ pacer_task' = WakeUpProcess(pacer_task)
    /\ last_pkt' = NoPacket
    /\ UNCHANGED <<now, link_idle_time, idlevars, msgout, throttle_lock, sock,
                   pc, cur, rs, pacer_exit, stop_pc, dont_throttle, users, resent_packets, ip_errors, ini, data_xmit_errors, ctlvars, histvars>>

NextAdd ==
    \/ \E r \in RPCS : AddCall(r)
    \/ \E r \in RPCS : Reset(r)

SpecAdd == InitAdd /\ [][NextAdd]_vars

\* Position of rpc r on list, 0 when it is not there.
RECURSIVE IndexOf(_, _)
IndexOf(list, r) ==
    IF list = <<>> THEN 0
    ELSE IF list[Len(list)] = r /\ IndexOf(SubSeq(list, 1, Len(list) - 1), r) = 0
         THEN Len(list)
         ELSE IndexOf(SubSeq(list, 1, Len(list) - 1), r)

Sorted(list, msgs) ==
    \A i, j \in 1 .. Len(list) :
        i < j => Remaining(msgs[list[i]]) <= Remaining(msgs[list[j]])

\* C3: after any sequence of homa_add_to_throttled calls from the empty list,
\* with nothing else changing the messages in between, throttled_rpcs is in
\* ascending order of length - next_offset.
C3_SortedAfterAdds == nresets = 0 => Sorted(throttled_rpcs, msgout)

\* Every RPC is on the list, two of them tie, and the list is not in the
\* order of the calls that would leave the RPC ids ascending.
C3_Witness ==
    /\ nresets = 0
    /\ Len(throttled_rpcs) = NumAddRpcs
    /\ \E i \in 1 .. Len(throttled_rpcs) - 1 :
           /\ throttled_rpcs[i] > throttled_rpcs[i + 1]
           /\ Remaining(msgout[throttled_rpcs[i]])
                  < Remaining(msgout[throttled_rpcs[i + 1]])
    /\ \E i \in 1 .. Len(throttled_rpcs) - 1 :
           Remaining(msgout[throttled_rpcs[i]])
               = Remaining(msgout[throttled_rpcs[i + 1]])

\* The step links rpc r: r is on the new list and the others keep their order.
Inserts(r) ==
    /\ ~throttled_links[r]
    /\ throttled_links'[r]
    /\ IndexOf(throttled_rpcs', r) > 0
    /\ DeleteThrottled(throttled_rpcs', r) = throttled_rpcs

\* r sits right before the first entry with more remaining bytes than it has.
BeforeFirstLarger(list, msgs, r) ==
    LET i == IndexOf(list, r)
    IN  /\ \A j \in 1 .. i - 1 :
               Remaining(msgs[list[j]]) <= Remaining(msgs[r])
        /\ i < Len(list) =>
               Remaining(msgs[list[i + 1]]) > Remaining(msgs[r])

\* r sits after every other entry with as many remaining bytes as it has.
AfterAllEqual(list, msgs, r) ==
    \A j \in 1 .. Len(list) :
        (list[j] # r /\ Remaining(msgs[list[j]]) = Remaining(msgs[r]))
            => j < IndexOf(list, r)

ResendCalls == {<<1000, 3000, 5>>, <<1400, 2800, 7>>}

\* Entry of homa_resend_data(rpc, start, end, priority), for one of `calls`.
ResendEnter(r, calls) ==
    /\ msgout[r].length >= 0
    /\ pc[r] = "idle"
    /\ sock[r] = "free"
    /\ nresends < MaxResends
    /\ \E call \in calls :
          rs' = [rs EXCEPT ![r] =
                    [start |-> call[1], end |-> call[2], priority |-> call[3],
                     skb |-> IF msgout[r].packets = <<>> THEN NULL ELSE 1]]
    /\ sock' = [sock EXCEPT ![r] = "user"]
    /\ pc' = [pc EXCEPT ![r] = "resend_loop"]
    /\ nresends' = nresends + 1
    /\ last_pkt' = NoPacket
    /\ UNCHANGED <<now, link_idle_time, idlevars, msgout, listvars, cur,
                   pacervars, dont_throttle, users, resent_packets, ip_errors, ini, data_xmit_errors, ctlvars, max_orig,
                   max_orig_reset, nresets>>

ResendBegin(r) == ResendEnter(r, ResendCalls)

\* The buffer ends at or before start: continue.
ResendBefore(r) ==
    LET skb == rs[r].skb
    IN  /\ pc[r] = "resend_loop"
        /\ skb # NULL
        /\ msgout[r].packets[skb].offset + HOMA_MAX_DATA_PER_PACKET
               <= rs[r].start
        /\ rs' = [rs EXCEPT ![r].skb = NextSkb(msgout[r], skb)]
        /\ last_pkt' = NoPacket
        /\ UNCHANGED <<now, link_idle_time, idlevars, msgout, listvars, sock,
                       pc, cur, pacervars, dont_throttle, users, resent_packets, ip_errors, ini, data_xmit_errors, ctlvars, histvars>>

\* The end of the list, or a buffer at or after end: the function returns.
ResendReturn(r) ==
    LET skb == rs[r].skb
    IN  /\ pc[r] = "resend_loop"
        /\ \/ skb = NULL
           \/ /\ skb # NULL
              /\ msgout[r].packets[skb].offset + HOMA_MAX_DATA_PER_PACKET
                     > rs[r].start
              /\ msgout[r].packets[skb].offset >= rs[r].end
        /\ pc' = [pc EXCEPT ![r] = "idle"]
        /\ sock' = [sock EXCEPT ![r] = "free"]
        /\ rs' = [rs EXCEPT ![r] =
                     [start |-> 0, end |-> 0, priority |-> 0, skb |-> NULL]]
        /\ last_pkt' = NoPacket
        /\ UNCHANGED <<now, link_idle_time, idlevars, msgout, listvars, cur,
                       pacervars, dont_throttle, users, resent_packets, ip_errors, ini, data_xmit_errors, ctlvars, histvars>>

InRangeAll(r) == pc[r] = "resend_loop" /\ rs[r].skb # NULL

\* A buffer of the range: passed over when shared, retransmitted otherwise.
InRange(r) ==
    LET skb == rs[r].skb
    IN  /\ pc[r] = "resend_loop"
        /\ skb # NULL
        /\ msgout[r].packets[skb].offset + HOMA_MAX_DATA_PER_PACKET
               > rs[r].start
        /\ msgout[r].packets[skb].offset < rs[r].end

ResendSkip(r) ==
    /\ InRange(r)
    /\ SkbShared(users[r][rs[r].skb])
    /\ rs' = [rs EXCEPT ![r].skb = NextSkb(msgout[r], rs[r].skb)]
    /\ last_pkt' = Visit(r, msgout[r].packets[rs[r].skb].offset, 1,
                         rs[r].priority, TRUE, FALSE)
    /\ UNCHANGED <<now, link_idle_time, idlevars, msgout, listvars, sock, pc,
                   cur, pacervars, dont_throttle, users, histvars,
                   resent_packets, ip_errors, ini, data_xmit_errors, ctlvars>>

\* h->retransmit = 1, set_priority, __homa_xmit_data, INC_METRIC.
ResendSend(r) ==
    /\ InRange(r)
    /\ ~SkbShared(users[r][rs[r].skb])
    /\ rs' = [rs EXCEPT ![r].skb = NextSkb(msgout[r], rs[r].skb)]
    /\ \E err \in IpQueueXmit(ip_errors) :
          /\ users' = [users EXCEPT ![r][rs[r].skb] = AfterXmit(@, err)]
          /\ ip_errors' = IF err THEN ip_errors - 1 ELSE ip_errors
          /\ data_xmit_errors' = ErrorsAfterXmit(data_xmit_errors, err)
          /\ last_pkt' = Visit(r, msgout[r].packets[rs[r].skb].offset, 1,
                               rs[r].priority, FALSE, err)
          /\ link_idle_time' =
                 IdleAfterXmit(link_idle_time, now,
                               WireBytes(msgout[r], rs[r].skb), err)
    /\ resent_packets' = resent_packets + 1
    /\ UNCHANGED <<now, idlevars, msgout, listvars, sock, pc, cur, pacervars,
                   dont_throttle, histvars, ini, ctlvars>>

(***************************************************************************)
(* The IP stack and the driver: a buffer handed to ip_queue_xmit stays     *)
(* referenced until its transmission is over; the release asks for no lock *)
(* of the sender.  A release commutes with every step but a sender's look  *)
(* at that buffer (skb_shared), so it is taken when a sender is about to   *)
(* look: every outcome a sender can see is kept.                           *)
(***************************************************************************)
\* A sender's next step looks at buffer skb of rpc r.
AboutToVisit(r, skb) ==
    \/ \E t \in THREADS :
          /\ pc[t] = "xmit_loop"
          /\ RpcOf(t) = r
          /\ XmitMore(msgout[r])
          /\ msgout[r].next_packet = skb
    \/ pc[r] = "resend_loop" /\ rs[r].skb = skb

TxComplete(r, skb) ==
    /\ users[r][skb] > 1
    /\ AboutToVisit(r, skb)
    /\ users' = [users EXCEPT ![r][skb] = @ - 1]
    /\ last_pkt' = NoPacket
    /\ UNCHANGED <<now, link_idle_time, idlevars, msgout, listvars, sock, pc,
                   cur, rs, pacervars, dont_throttle, histvars,
                   resent_packets, ip_errors, ini, data_xmit_errors, ctlvars>>

IpNext ==
    \E r \in RPCS : \E skb \in 1 .. Len(msgout[r].packets) : TxComplete(r, skb)

(***************************************************************************)
(* The pacer thread: homa_pacer_main and homa_pacer_xmit.                  *)
(***************************************************************************)
\* if (homa->pacer_exit) break; ... do_exit(0)
PacerTestExit ==
    /\ pc[PACER] = "test_exit"
    /\ pc' = [pc EXCEPT ![PACER] = IF pacer_exit THEN "exited" ELSE "set_state"]
    /\ last_pkt' = NoPacket
    /\ UNCHANGED <<now, link_idle_time, idlevars, msgout, listvars, sock, cur,
                   rs, pacervars, dont_throttle, users, resent_packets, ip_errors, ini, data_xmit_errors, ctlvars, histvars>>

\* set_current_state(TASK_INTERRUPTIBLE)
PacerSetState ==
    /\ pc[PACER] = "set_state"
    /\ pacer_task' = "INTERRUPTIBLE"
    /\ pc' = [pc EXCEPT ![PACER] = "check_list"]
    /\ last_pkt' = NoPacket
    /\ UNCHANGED <<now, link_idle_time, idlevars, msgout, listvars, sock, cur,
                   rs, pacer_exit, stop_pc, dont_throttle, users, resent_packets, ip_errors, ini, data_xmit_errors, ctlvars, histvars>>

\* The list is empty: on to schedule().
PacerListEmpty ==
    /\ pc[PACER] = "check_list"
    /\ throttled_rpcs = <<>>
    /\ pc' = [pc EXCEPT ![PACER] = "schedule"]
    /\ last_pkt' = NoPacket
    /\ UNCHANGED <<now, link_idle_time, idlevars, msgout, listvars, sock, cur,
                   rs, pacervars, dont_throttle, users, resent_packets, ip_errors, ini, data_xmit_errors, ctlvars, histvars>>

\* The list is not empty: __set_current_state(TASK_RUNNING), homa_pacer_xmit.
PacerListBusy ==
    /\ pc[PACER] = "check_list"
    /\ throttled_rpcs # <<>>
    /\ pacer_task' = "RUNNING"
    /\ pc' = [pc EXCEPT ![PACER] = "spin"]
    /\ last_pkt' = NoPacket
    /\ UNCHANGED <<now, link_idle_time, idlevars, msgout, listvars, sock, cur,
                   rs, pacer_exit, stop_pc, dont_throttle, users, resent_packets, ip_errors, ini, data_xmit_errors, ctlvars, histvars>>

\* schedule() returns once the task is runnable: at once when a wake-up came
\* after set_current_state, at the next wake_up_process otherwise.
PacerSchedule ==
    /\ pc[PACER] = "schedule"
    /\ pacer_task = "RUNNING"
    /\ pc' = [pc EXCEPT ![PACER] = "test_exit"]
    /\ last_pkt' = NoPacket
    /\ UNCHANGED <<now, link_idle_time, idlevars, msgout, listvars, sock, cur,
                   rs, pacervars, dont_throttle, users, resent_packets, ip_errors, ini, data_xmit_errors, ctlvars, histvars>>

\* homa_pacer_xmit: the busy-wait ends and list_first_or_null_rcu reads the
\* head of the list; with no head the function returns.
PacerSpinDone ==
    /\ pc[PACER] = "spin"
    /\ ~((now + max_nic_queue_cycles) < link_idle_time)
    /\ IF throttled_rpcs = <<>>
       THEN /\ pc' = [pc EXCEPT ![PACER] = "test_exit"]
            /\ cur' = NULL
       ELSE /\ pc' = [pc EXCEPT ![PACER] = "lock_sock"]
            /\ cur' = Head(throttled_rpcs)
    /\ last_pkt' = NoPacket
    /\ UNCHANGED <<now, link_idle_time, idlevars, msgout, listvars, sock, rs,
                   pacervars, dont_throttle, users, resent_packets, ip_errors, ini, data_xmit_errors, ctlvars, histvars>>

OwnedByUserNever(s) == FALSE

\* sock_owned_by_user(sk).
OwnedByUser(s) == s = "user"

\* bh_lock_sock_nested, then sock_owned_by_user finds the socket of the head
\* owned by user context.
PacerSockOwned ==
    /\ pc[PACER] = "lock_sock"
    /\ sock[cur] # "bh"
    /\ OwnedByUser(sock[cur])
    /\ pc' = [pc EXCEPT ![PACER] = "sock_owned"]
    /\ last_pkt' = NoPacket
    /\ UNCHANGED <<now, link_idle_time, idlevars, msgout, listvars, sock, cur, rs,
                   pacervars, dont_throttle, users, resent_packets, ip_errors, ini, data_xmit_errors, ctlvars, histvars>>

\* The owned branch: bh_unlock_sock and return.
PacerSockUnlock ==
    /\ pc[PACER] = "sock_owned"
    /\ cur' = NULL
    /\ pc' = [pc EXCEPT ![PACER] = "test_exit"]
    /\ last_pkt' = NoPacket
    /\ UNCHANGED <<now, link_idle_time, idlevars, msgout, listvars, sock, rs,
                   pacervars, dont_throttle, users, resent_packets, ip_errors, ini, data_xmit_errors, ctlvars, histvars>>

\* bh_lock_sock_nested succeeds and the socket is not owned: homa_xmit_data.
PacerTakeHead ==
    /\ pc[PACER] = "lock_sock"
    /\ sock[cur] # "bh"
    /\ ~OwnedByUser(sock[cur])
    /\ sock' = [sock EXCEPT ![cur] = "bh"]
    /\ pc' = [pc EXCEPT ![PACER] = "xmit_loop"]
    /\ last_pkt' = NoPacket
    /\ UNCHANGED <<now, link_idle_time, idlevars, msgout, listvars, cur, rs,
                   pacervars, dont_throttle, users, resent_packets, ip_errors, ini, data_xmit_errors, ctlvars, histvars>>

\* After homa_xmit_data the RPC still has granted packets: bh_unlock_sock.
PacerKeep ==
    /\ pc[PACER] = "xmit_ret"
    /\ ~Drained(msgout[cur])
    /\ sock' = [sock EXCEPT ![cur] = "free"]
    /\ cur' = NULL
    /\ pc' = [pc EXCEPT ![PACER] = "test_exit"]
    /\ last_pkt' = NoPacket
    /\ UNCHANGED <<now, link_idle_time, idlevars, msgout, listvars, rs,
                   pacervars, dont_throttle, users, resent_packets, ip_errors, ini, data_xmit_errors, ctlvars, histvars>>

\* The RPC is drained: on to spin_lock_bh(&homa->throttle_lock).
PacerDrained ==
    /\ pc[PACER] = "xmit_ret"
    /\ Drained(msgout[cur])
    /\ pc' = [pc EXCEPT ![PACER] = "rm_lock"]
    /\ last_pkt' = NoPacket
    /\ UNCHANGED <<now, link_idle_time, idlevars, msgout, listvars, sock, cur,
                   rs, pacervars, dont_throttle, users, resent_packets, ip_errors, ini, data_xmit_errors, ctlvars, histvars>>

PacerLock ==
    /\ pc[PACER] = "rm_lock"
    /\ throttle_lock = NONE
    /\ throttle_lock' = PACER
    /\ pc' = [pc EXCEPT ![PACER] = "rm_del"]
    /\ last_pkt' = NoPacket
    /\ UNCHANGED <<now, link_idle_time, idlevars, msgout, throttled_rpcs,
                   throttled_links, last_added, sock, cur, rs, pacervars,
                   dont_throttle, users, resent_packets, ip_errors, ini, data_xmit_errors, ctlvars, histvars>>

\* list_del_rcu and INIT_LIST_HEAD_RCU when the RPC is linked, then
\* spin_unlock_bh and bh_unlock_sock.
PacerRemove ==
    /\ pc[PACER] = "rm_del"
    /\ IF throttled_links[cur]
       THEN /\ throttled_rpcs' = DeleteThrottled(throttled_rpcs, cur)
            /\ throttled_links' = [throttled_links EXCEPT ![cur] = FALSE]
            /\ last_added' = IF last_added = cur THEN NULL ELSE last_added
       ELSE UNCHANGED <<throttled_rpcs, throttled_links, last_added>>
    /\ throttle_lock' = NONE
    /\ sock' = [sock EXCEPT ![cur] = "free"]
    /\ cur' = NULL
    /\ pc' = [pc EXCEPT ![PACER] = "test_exit"]
    /\ last_pkt' = NoPacket
    /\ UNCHANGED <<now, link_idle_time, idlevars, msgout, rs, pacervars,
                   dont_throttle, users, resent_packets, ip_errors, ini, data_xmit_errors, ctlvars, histvars>>

(***************************************************************************)
(* homa_pacer_stop                                                         *)
(***************************************************************************)
\* homa->pacer_exit = true
StopSetExit ==
    /\ stop_pc = "idle"
    /\ pacer_exit' = TRUE
    /\ stop_pc' = "wake"
    /\ last_pkt' = NoPacket
    /\ UNCHANGED <<now, link_idle_time, idlevars, msgout, listvars, sock, pc,
                   cur, rs, pacer_task, dont_throttle, users, resent_packets, ip_errors, ini, data_xmit_errors, ctlvars, histvars>>

\* wake_up_process(homa->pacer_kthread)
StopWake ==
    /\ stop_pc = "wake"
    /\ pacer_task' = "RUNNING"
    /\ stop_pc' = "kthread_stop"
    /\ last_pkt' = NoPacket
    /\ UNCHANGED <<now, link_idle_time, idlevars, msgout, listvars, sock, pc,
                   cur, rs, pacer_exit, dont_throttle, users, resent_packets, ip_errors, ini, data_xmit_errors, ctlvars, histvars>>

\* kthread_stop wakes the thread once more, then waits for it to exit.
StopKthread ==
    /\ stop_pc = "kthread_stop"
    /\ pacer_task' = "RUNNING"
    /\ stop_pc' = "wait"
    /\ last_pkt' = NoPacket
    /\ UNCHANGED <<now, link_idle_time, idlevars, msgout, listvars, sock, pc,
                   cur, rs, pacer_exit, dont_throttle, users, resent_packets, ip_errors, ini, data_xmit_errors, ctlvars, histvars>>

\* kthread_stop returns; homa->pacer_kthread = NULL.
StopReturn ==
    /\ stop_pc = "wait"
    /\ pc[PACER] = "exited"
    /\ stop_pc' = "done"
    /\ last_pkt' = NoPacket
    /\ UNCHANGED <<now, link_idle_time, idlevars, msgout, listvars, sock, pc,
                   cur, rs, pacer_exit, pacer_task, dont_throttle, users, resent_packets, ip_errors, ini, data_xmit_errors, ctlvars, histvars>>

(***************************************************************************)
(* Spec: the senders, the pacer and the clock.                             *)
(***************************************************************************)
Init ==
    /\ now = 0
    /\ link_idle_time = 0
    /\ IdleQuiet
    /\ msgout = [r \in RPCS |-> IF r \in MainRpcs
                                 THEN MessageOutInit(MainLength(r))
                                 ELSE NoMessage]
    /\ dont_throttle = FALSE
    /\ SendersQuiet
    /\ ip_errors = 0

XmitNext ==
    \/ \E r \in RPCS : XmitBegin(r)
    \/ \E t \in THREADS : XmitExit(t)
    \/ \E t \in THREADS : XmitThrottle(t)
    \/ \E t \in THREADS : XmitPacket(t)
    \/ \E t \in THREADS : AddCheck(t)
    \/ \E t \in THREADS : AddLock(t)
    \/ \E t \in THREADS : AddInsert(t)
    \/ \E t \in THREADS : AddWake(t)
    \/ \E r \in RPCS : XmitReturn(r)

ResendNext ==
    \/ \E r \in RPCS : ResendBegin(r)
    \/ \E r \in RPCS : ResendBefore(r)
    \/ \E r \in RPCS : ResendReturn(r)
    \/ \E r \in RPCS : ResendSkip(r)
    \/ \E r \in RPCS : ResendSend(r)

ReceiveNext ==
    \/ \E r \in RPCS : Grant(r)
    \/ \E r \in RPCS : Reset(r)
    \/ \E r \in RPCS : ResendBegin(r)
    \/ \E r \in RPCS : ResendBefore(r)
    \/ \E r \in RPCS : ResendReturn(r)
    \/ \E r \in RPCS : ResendSkip(r)
    \/ \E r \in RPCS : ResendSend(r)

PacerNext ==
    \/ PacerTestExit
    \/ PacerSetState
    \/ PacerListEmpty
    \/ PacerListBusy
    \/ PacerSchedule
    \/ PacerSpinDone
    \/ PacerSockOwned
    \/ PacerSockUnlock
    \/ PacerTakeHead
    \/ PacerKeep
    \/ PacerDrained
    \/ PacerLock
    \/ PacerRemove

StopNext ==
    \/ StopSetExit
    \/ StopWake
    \/ StopKthread
    \/ StopReturn

GrantNext == \E r \in RPCS : Grant(r)

Next == Tick \/ XmitNext \/ GrantNext \/ PacerNext

Spec == Init /\ [][Next]_vars

\* Number of places rpc r has on list.
Count(list, r) == Cardinality({i \in 1 .. Len(list) : list[i] = r})

\* A call of homa_add_to_throttled by thread t that finds its RPC linked
\* returns with the list as it was.
AddIdempotent ==
    \A t \in THREADS :
        (pc[t] = "add_check" /\ pc'[t] # "add_check"
         /\ throttled_links[RpcOf(t)])
            => (pc'[t] = "xmit_ret" /\ throttled_rpcs' = throttled_rpcs)

\* C4: with the callers for one RPC serialized by the lock of its socket,
\* under any interleaving of the sender threads and the pacer each RPC is on
\* throttled_rpcs at most once (and is linked exactly when it is there), and
\* homa_add_to_throttled for an RPC already on the list leaves the list
\* unchanged; the already-linked test is made before throttle_lock is taken.
C4_AtMostOnce ==
    /\ [](\A r \in RPCS :
            /\ Count(throttled_rpcs, r) <= 1
            /\ throttled_links[r] <=> Count(throttled_rpcs, r) = 1)
    /\ [][AddIdempotent]_vars
    /\ [][\A t \in THREADS :
            (pc[t] = "add_check" /\ pc'[t] # "add_check")
                => throttle_lock # t]_vars

\* C4 as stated: at most once, idempotent, and the already-linked test is
\* made while the caller holds throttle_lock.
C4_AsStated ==
    /\ [](\A r \in RPCS : Count(throttled_rpcs, r) <= 1)
    /\ [][AddIdempotent]_vars
    /\ [][\A t \in THREADS :
            (pc[t] = "add_check" /\ pc'[t] # "add_check")
                => throttle_lock = t]_vars

\* A sender thread is in homa_add_to_throttled for an RPC that is already on
\* the list, next to another RPC, while the pacer holds throttle_lock.
C4_Witness ==
    \E t \in RPCS :
        /\ pc[t] = "add_check"
        /\ throttled_links[t]
        /\ Len(throttled_rpcs) = 2
        /\ throttle_lock = PACER

\* C6: at every return of homa_xmit_data, in a sender thread or in the
\* pacer, the RPC is drained up to its grant (next_offset >= granted or
\* next_packet is null) or it is on throttled_rpcs.
C6_DrainedOrThrottled ==
    \A t \in THREADS :
        pc[t] = "xmit_ret" =>
            \/ msgout[RpcOf(t)].next_offset >= msgout[RpcOf(t)].granted
            \/ msgout[RpcOf(t)].next_packet = NULL
            \/ Count(throttled_rpcs, RpcOf(t)) = 1

\* homa_xmit_data returns in a sender thread with granted packets unsent and
\* the RPC on the list, and returns in the pacer the same way.
C6_Witness ==
    /\ \E t \in RPCS :
           /\ pc[t] = "xmit_ret"
           /\ ~Drained(msgout[t])
           /\ msgout[t].next_offset > 0
           /\ Count(throttled_rpcs, t) = 1

(***************************************************************************)
(* SpecOne: one RPC with every operation on its outbound message.          *)
(***************************************************************************)
InitOne ==
    /\ now = 0
    /\ link_idle_time = 0
    /\ IdleQuiet
    /\ msgout = [r \in RPCS |-> IF r = 1 THEN MessageOutInit(OneLength)
                                 ELSE NoMessage]
    /\ dont_throttle = FALSE
    /\ SendersQuiet
    /\ ip_errors = 0

NextOne == Tick \/ XmitNext \/ ReceiveNext \/ PacerNext \/ IpNext

SpecOne == InitOne /\ [][NextOne]_vars

\* C7: an RPC leaves throttled_rpcs only in the step of homa_pacer_xmit that
\* unlinks the RPC it has just sent for, with throttle_lock held by the
\* pacer and the RPC drained (next_offset >= granted or next_packet null);
\* no step of homa_xmit_data, homa_resend_data, homa_add_to_throttled or
\* homa_message_out_reset takes an entry off the list.
C7_OnlyPacerRemoves ==
    [][\A r \in RPCS :
          Count(throttled_rpcs', r) < Count(throttled_rpcs, r) =>
              /\ pc[PACER] = "rm_del"
              /\ pc'[PACER] # "rm_del"
              /\ cur = r
              /\ throttle_lock = PACER
              /\ \/ msgout[r].next_offset >= msgout[r].granted
                 \/ msgout[r].next_packet = NULL
              /\ \A t \in RPCS : pc'[t] = pc[t]]_vars

\* The pacer, holding throttle_lock, is about to unlink the RPC, whose
\* message was reset and retransmitted from while it was on the list.
C7_Witness ==
    /\ pc[PACER] = "rm_del"
    /\ throttle_lock = PACER
    /\ throttled_rpcs = <<cur>>
    /\ msgout[cur].next_packet = NULL
    /\ nresets >= 1
    /\ nresends >= 1

\* The step emits an original transmission of rpc r (a packet homa_xmit_data
\* hands to ip_queue_xmit).
OriginalSent(r) ==
    /\ last_pkt'.rpc = r
    /\ last_pkt'.retransmit = 0
    /\ ~last_pkt'.shared

\* C9: within one RPC, the offset of each original transmission of
\* homa_xmit_data (from the sender thread or from the pacer) is greater than
\* those of all the original transmissions made since the last
\* homa_message_out_reset of the message (or since its creation), whatever
\* grants and retransmissions are interleaved; a reset starts the offsets
\* over from 0.
C9_IncreasingSinceReset ==
    [][\A r \in RPCS :
          /\ OriginalSent(r) => last_pkt'.offset > max_orig_reset[r]
          /\ (nresets' # nresets /\ pc[r] = "idle" /\ msgout[r].length >= 0)
                 => msgout'[r].next_offset = 0]_vars

\* C9 as stated: the offsets are strictly increasing over the whole life of
\* the message.
C9_AsStated ==
    [][\A r \in RPCS :
          OriginalSent(r) => last_pkt'.offset > max_orig[r]]_vars

\* After a reset, and with a retransmission made, the pacer has just sent an
\* original transmission at an offset below one sent before.
C9_Witness ==
    /\ nresets >= 1
    /\ nresends >= 1
    /\ last_pkt.rpc = 1
    /\ last_pkt.retransmit = 0
    /\ ~last_pkt.shared
    /\ last_pkt.offset < max_orig[1]
    /\ pc[PACER] = "xmit_loop"
    /\ cur = 1

\* Buffer skb of rpc r's message overlaps the range of r's call of
\* homa_resend_data.
Overlaps(r, skb) ==
    /\ msgout[r].packets[skb].offset + HOMA_MAX_DATA_PER_PACKET > rs[r].start
    /\ msgout[r].packets[skb].offset < rs[r].end

\* C10: from the entry of homa_resend_data to its return, for every range
\* and priority, next_offset, next_packet and granted of the message keep
\* their values and the throttled list and the RPC's link do not change;
\* the function passes to ip_queue_xmit, as a retransmission at the call's
\* priority, every unshared buffer overlapping the range and no other,
\* whatever link_idle_time is.
C10_ResendFrame ==
    [][\A r \in RPCS :
          /\ (pc[r] = "resend_loop" \/ pc'[r] = "resend_loop") =>
                 /\ msgout'[r].next_offset = msgout[r].next_offset
                 /\ msgout'[r].next_packet = msgout[r].next_packet
                 /\ msgout'[r].granted = msgout[r].granted
                 /\ throttled_rpcs' = throttled_rpcs
                 /\ throttled_links' = throttled_links
                 /\ pc'[r] \in {"resend_loop", "idle"}
          /\ (last_pkt'.rpc = r /\ last_pkt'.retransmit = 1) =>
                 /\ pc[r] = "resend_loop"
                 /\ Overlaps(r, rs[r].skb)
                 /\ last_pkt'.offset = msgout[r].packets[rs[r].skb].offset
                 /\ last_pkt'.priority = rs[r].priority
          /\ (pc[r] = "resend_loop" /\ rs'[r] # rs[r] /\ rs[r].skb # NULL
               /\ Overlaps(r, rs[r].skb)) =>
                 /\ last_pkt'.rpc = r
                 /\ last_pkt'.retransmit = 1]_vars

\* A retransmission has just gone out while the NIC queue is longer than
\* max_nic_queue_cycles, for an RPC that is on the throttled list with
\* granted packets unsent.
C10_Witness ==
    /\ last_pkt.rpc = 1
    /\ last_pkt.retransmit = 1
    /\ ~last_pkt.shared
    /\ last_pkt.backed_up
    /\ throttled_rpcs = <<1>>
    /\ ~Drained(msgout[1])

(***************************************************************************)
(* FairSpecStop: one RPC, the pacer and homa_pacer_stop.  The NIC queue    *)
(* starts two full packets long, so that the RPC is throttled.  The kernel *)
(* runs every thread that is runnable and the clock moves on: weak         *)
(* fairness for the pacer, for homa_pacer_stop, for a sender inside a call *)
(* and for the clock.  A sender need not start a call.                     *)
(***************************************************************************)
InitStop ==
    /\ now = 0
    /\ link_idle_time = 2 * TickCycles
    /\ IdleQuiet
    /\ msgout = [r \in RPCS |-> IF r = 1 THEN MessageOutInit(OneLength)
                                 ELSE NoMessage]
    /\ dont_throttle = FALSE
    /\ SendersQuiet
    /\ ip_errors = 0

\* The steps of thread t inside homa_xmit_data.
XmitRun(t) ==
    \/ XmitExit(t)
    \/ XmitThrottle(t)
    \/ XmitPacket(t)
    \/ AddCheck(t)
    \/ AddLock(t)
    \/ AddInsert(t)
    \/ AddWake(t)

NextStop == Tick \/ XmitNext \/ GrantNext \/ PacerNext \/ StopNext

FairSpecStop ==
    /\ InitStop
    /\ [][NextStop]_vars
    /\ WF_vars(PacerNext \/ XmitRun(PACER))
    /\ WF_vars(StopNext)
    /\ \A r \in RPCS : WF_vars(XmitRun(r) \/ XmitReturn(r))
    /\ WF_vars(Tick)

\* C8: once homa_pacer_stop has set pacer_exit and delivered its wake-ups,
\* the pacer thread eventually exits and homa_pacer_stop returns, wherever
\* in its loop the pacer was.
C8_PacerExits ==
    (stop_pc = "wait") ~> (pc[PACER] = "exited" /\ stop_pc = "done")

\* The pacer has tested pacer_exit and has not yet gone to sleep or found
\* the list busy, with no wake-up pending.
InExitWindow ==
    \/ pc[PACER] = "set_state"
    \/ pc[PACER] \in {"check_list", "schedule"} /\ pacer_task = "INTERRUPTIBLE"

\* The pacer does exit when the wake-ups of homa_pacer_stop find it outside
\* that window.
ExitsOutsideWindow ==
    (stop_pc = "wait" /\ ~InExitWindow) ~> (pc[PACER] = "exited")

\* homa_pacer_stop waits for a pacer that sleeps in schedule() with
\* pacer_exit set and nothing left to wake it.
LostWakeup ==
    /\ stop_pc = "wait"
    /\ pacer_exit
    /\ pc[PACER] = "schedule"
    /\ pacer_task = "INTERRUPTIBLE"
    /\ throttled_rpcs = <<>>

(***************************************************************************)
(* Packet buffers and their references.                                    *)
(***************************************************************************)
\* The buffer of a message whose header offset is off.
BufferAt(off) == off \div HOMA_MAX_DATA_PER_PACKET + 1

\* C11: with homa_xmit_data (from the sender thread and from the pacer),
\* homa_resend_data, resets and the IP stack's releases interleaved on one
\* RPC, a buffer never has more than one transmission in flight (skb->users
\* is at most 2); a step sets a buffer's priority and retransmit flag and
\* hands it to ip_queue_xmit only when nothing but the message holds it, and
\* a buffer found shared is left as it is, with no update of link_idle_time,
\* while homa_xmit_data still moves next_offset and next_packet past it.
C11_NoConcurrentTransmit ==
    /\ [](\A r \in RPCS : \A i \in DOMAIN users[r] : users[r][i] <= 2)
    /\ [][\A r \in RPCS :
            last_pkt'.rpc = r =>
                LET skb == BufferAt(last_pkt'.offset)
                IN  /\ ~last_pkt'.shared => users[r][skb] = 1
                    /\ last_pkt'.shared =>
                           /\ users[r][skb] > 1
                           /\ users' = users
                           /\ link_idle_time' = link_idle_time
                    /\ (last_pkt'.shared /\ last_pkt'.retransmit = 0) =>
                           /\ msgout[r].next_packet = skb
                           /\ msgout'[r].next_packet = NextSkb(msgout[r], skb)
                           /\ msgout'[r].next_offset =
                                  msgout[r].next_offset
                                  + HOMA_MAX_DATA_PER_PACKET]_vars

\* After a reset, the pacer has just passed over a buffer that a
\* retransmission still has in flight, and moved next_offset past it.
C11_Witness ==
    /\ last_pkt.rpc = 1
    /\ last_pkt.shared
    /\ last_pkt.retransmit = 0
    /\ users[1][BufferAt(last_pkt.offset)] = 2
    /\ msgout[1].next_offset = last_pkt.offset + HOMA_MAX_DATA_PER_PACKET
    /\ pc[PACER] = "xmit_loop"
    /\ cur = 1
    /\ nresets >= 1
    /\ nresends >= 1

(***************************************************************************)
(* SpecXmit: one RPC whose message is short, ends in a short packet or has *)
(* three packets; throttling on or off; the NIC queue empty or long at the *)
(* start.  The sender thread, grants, the pacer and the clock are          *)
(* interleaved.                                                            *)
(***************************************************************************)
XmitLengths ==
    {throttle_min_bytes,
     HOMA_MAX_DATA_PER_PACKET + throttle_min_bytes,
     3 * HOMA_MAX_DATA_PER_PACKET}

\* A NIC queue long enough for the throttle test to hold until MaxTicks ticks
\* have passed.
LongQueue == MaxTicks * TickCycles + max_nic_queue_cycles

InitXmit ==
    /\ now = 0
    /\ link_idle_time \in {0, LongQueue}
    /\ IdleQuiet
    /\ \E len \in XmitLengths :
          msgout = [r \in RPCS |-> IF r = 1 THEN MessageOutInit(len)
                                   ELSE NoMessage]
    /\ dont_throttle \in BOOLEAN
    /\ SendersQuiet
    /\ ip_errors = 0

NextXmit == Tick \/ XmitNext \/ GrantNext \/ PacerNext

SpecXmit == InitXmit /\ [][NextXmit]_vars

\* C12: homa_xmit_data goes to homa_add_to_throttled, and an RPC is linked
\* into throttled_rpcs, only when length - next_offset is above
\* throttle_min_bytes and HOMA_FLAG_DONT_THROTTLE is clear, however long the
\* NIC queue is; when the remaining bytes are at most throttle_min_bytes or
\* the flag is set, the call returns only with every packet of
\* [next_offset, granted) processed.
C12_SmallNeverThrottled ==
    /\ [][\A t \in THREADS :
            (pc[t] = "xmit_loop" /\ pc'[t] = "add_check") =>
                /\ msgout[RpcOf(t)].length - msgout[RpcOf(t)].next_offset
                       > throttle_min_bytes
                /\ ~dont_throttle]_vars
    /\ [][\A r \in RPCS :
            (throttled_links'[r] /\ ~throttled_links[r]) =>
                /\ msgout[r].length - msgout[r].next_offset
                       > throttle_min_bytes
                /\ ~dont_throttle]_vars
    /\ [](\A t \in THREADS :
            (/\ pc[t] = "xmit_ret"
             /\ \/ dont_throttle
                \/ msgout[RpcOf(t)].length - msgout[RpcOf(t)].next_offset
                       <= throttle_min_bytes)
                => \/ msgout[RpcOf(t)].next_offset >= msgout[RpcOf(t)].granted
                   \/ msgout[RpcOf(t)].next_packet = NULL)

\* With throttling enabled and the NIC queue longer than
\* max_nic_queue_cycles, the sender thread has just sent the last packet of
\* a message, with throttle_min_bytes bytes in it, after a full packet.
C12_Witness ==
    /\ ~dont_throttle
    /\ last_pkt.rpc = 1
    /\ ~last_pkt.shared
    /\ last_pkt.backed_up
    /\ last_pkt.offset = HOMA_MAX_DATA_PER_PACKET
    /\ msgout[1].length - last_pkt.offset = throttle_min_bytes
    /\ pc[1] = "xmit_loop"
    /\ throttled_rpcs = <<>>

\* C13: with throttling enabled and more than throttle_min_bytes remaining,
\* homa_xmit_data hands a packet to ip_queue_xmit only if
\* now + max_nic_queue_cycles >= link_idle_time at its throttle test, and goes
\* to homa_add_to_throttled only if now + max_nic_queue_cycles <
\* link_idle_time; from there to its return the call sends nothing and leaves
\* the message alone, and it returns with the RPC on throttled_rpcs and
\* next_offset the offset of the packet it did not send.
C13_ThrottleAtFirstBlocked ==
    /\ [][\A t \in THREADS :
            LET r == RpcOf(t)
                above == msgout[r].length - msgout[r].next_offset
                             > throttle_min_bytes
                blocked == now + max_nic_queue_cycles < link_idle_time
            IN  /\ (/\ pc[t] = "xmit_loop"
                    /\ ~dont_throttle
                    /\ above
                    /\ msgout'[r].next_offset # msgout[r].next_offset
                    /\ ~last_pkt'.shared)
                       => now + max_nic_queue_cycles >= link_idle_time
                /\ (/\ pc[t] = "xmit_loop"
                    /\ msgout[r].next_offset < msgout[r].granted
                    /\ msgout[r].next_packet # NULL
                    /\ ~dont_throttle
                    /\ above
                    /\ blocked
                    /\ (pc'[t] # pc[t] \/ msgout'[r] # msgout[r]))
                       => /\ pc'[t] = "add_check"
                          /\ msgout'[r] = msgout[r]
                          /\ last_pkt'.rpc # r
                /\ (pc[t] = "xmit_loop" /\ pc'[t] = "add_check") => blocked
                /\ pc[t] \in {"add_check", "add_lock", "add_insert",
                             "add_wake"}
                       => /\ msgout'[r] = msgout[r]
                          /\ last_pkt'.rpc # r
                          /\ pc'[t] \in {"add_check", "add_lock", "add_insert",
                                          "add_wake", "xmit_ret"}]_vars
    /\ [](\A t \in THREADS :
            LET m == msgout[RpcOf(t)]
            IN  (/\ pc[t] = "xmit_ret"
                 /\ m.next_offset < m.granted
                 /\ m.next_packet # NULL)
                    => /\ \E i \in 1 .. Len(throttled_rpcs) :
                              throttled_rpcs[i] = RpcOf(t)
                       /\ m.packets[m.next_packet].offset = m.next_offset)

\* Starting with an idle link, one call of homa_xmit_data, before the clock
\* has moved, has sent the packets at 0 and 1400 and returned with the RPC
\* on the throttled list at next_offset 2800.
C13_Witness ==
    /\ pc[1] = "xmit_ret"
    /\ now = 0
    /\ ~dont_throttle
    /\ link_idle_time = 2 * TickCycles
    /\ max_orig[1] = HOMA_MAX_DATA_PER_PACKET
    /\ msgout[1].next_offset = 2 * HOMA_MAX_DATA_PER_PACKET
    /\ msgout[1].next_offset < msgout[1].granted
    /\ throttled_rpcs = <<1>>

\* C19: every packet homa_xmit_data emits goes out with retransmit = 0; it
\* carries the unscheduled priority (homa_unsched_priority(peer, length))
\* when its offset is below the message's unscheduled, and otherwise the
\* message's sched_priority as it is when the packet is sent.
C19_PriorityByOffset ==
    [][\A r \in RPCS :
          (msgout'[r].next_offset # msgout[r].next_offset
             /\ msgout'[r].next_offset # 0) =>
              /\ last_pkt'.rpc = r
              /\ last_pkt'.offset
                     = msgout[r].packets[msgout[r].next_packet].offset
              /\ ~last_pkt'.shared =>
                     /\ last_pkt'.retransmit = 0
                     /\ last_pkt'.priority =
                            IF last_pkt'.offset < msgout[r].unscheduled
                            THEN UNSCHED_PRIORITY
                            ELSE msgout[r].sched_priority]_vars

\* The packet at offset 1400, beyond the unscheduled bytes, has gone out at
\* the priority of the grant that allowed it, after the packet at offset 0
\* went out at the unscheduled priority.
C19_Witness ==
    /\ last_pkt.rpc = 1
    /\ ~last_pkt.shared
    /\ last_pkt.retransmit = 0
    /\ last_pkt.offset = HOMA_MAX_DATA_PER_PACKET
    /\ last_pkt.offset >= msgout[1].unscheduled
    /\ last_pkt.priority \in GrantPriorities
    /\ last_pkt.priority # UNSCHED_PRIORITY
    /\ max_orig[1] = HOMA_MAX_DATA_PER_PACKET

(***************************************************************************)
(* SpecMsg: the life of one outbound message of any of MsgLengths bytes:   *)
(* sends by its sender thread, grants, resets, retransmissions and the IP  *)
(* stack's releases, with the clock standing and no pacer running.         *)
(***************************************************************************)
MsgLengths == {0} \cup XmitLengths

InitMsg ==
    /\ now = 0
    /\ link_idle_time = 0
    /\ IdleQuiet
    /\ \E len \in MsgLengths :
          msgout = [r \in RPCS |-> IF r = 1 THEN MessageOutInit(len)
                                   ELSE NoMessage]
    /\ dont_throttle = FALSE
    /\ SendersQuiet
    /\ ip_errors = 0

NextMsg == XmitNext \/ ReceiveNext \/ IpNext

SpecMsg == InitMsg /\ [][NextMsg]_vars

\* C14: in every state of a message (after homa_message_out_init, sends,
\* grants that raise granted up to length, retransmissions and resets),
\* unscheduled is rtt_bytes, as homa_message_out_init set it, and
\* min(length, unscheduled) <= granted <= length; so unscheduled <= granted
\* holds exactly for the messages of at least rtt_bytes bytes.
C14_GrantedInRange ==
    \A r \in RPCS :
        msgout[r].length >= 0 =>
            /\ msgout[r].unscheduled = rtt_bytes
            /\ msgout[r].granted <= msgout[r].length
            /\ msgout[r].granted >= msgout[r].length
                   \/ msgout[r].granted >= msgout[r].unscheduled
            /\ (msgout[r].unscheduled <= msgout[r].granted)
                   <=> (msgout[r].length >= rtt_bytes)

\* C14 as stated: unscheduled <= granted <= length, and unscheduled is
\* min(length, rtt_bytes).
C14_AsStated ==
    \A r \in RPCS :
        msgout[r].length >= 0 =>
            /\ msgout[r].unscheduled <= msgout[r].granted
            /\ msgout[r].granted <= msgout[r].length
            /\ msgout[r].unscheduled
                   = (IF msgout[r].length <= rtt_bytes THEN msgout[r].length
                      ELSE rtt_bytes)

\* A message shorter than rtt_bytes has been sent, retransmitted and reset:
\* granted is its length, below unscheduled.
C14_Witness ==
    /\ msgout[1].length > 0
    /\ msgout[1].length < rtt_bytes
    /\ msgout[1].granted = msgout[1].length
    /\ msgout[1].unscheduled > msgout[1].granted
    /\ max_orig[1] = 0
    /\ nresets >= 1
    /\ nresends >= 1

\* C17: homa_message_out_reset, in any state of an initialized message
\* (whatever has been sent and granted), sets next_offset to 0, next_packet
\* to the head of the packet list and granted to min(length, unscheduled),
\* leaves packets, length, unscheduled and sched_priority as they were, and
\* a second reset right after it would change nothing.
C17_ResetRewinds ==
    [][nresets' # nresets =>
          \E r \in RPCS :
              LET m == msgout[r]
                  n == msgout'[r]
              IN  /\ m.length >= 0
                  /\ \A o \in RPCS \ {r} : msgout'[o] = msgout[o]
                  /\ n.next_offset = 0
                  /\ n.next_packet = IF m.packets = <<>> THEN NULL ELSE 1
                  /\ n.granted = Min(m.length, m.unscheduled)
                  /\ n.packets = m.packets
                  /\ n.length = m.length
                  /\ n.unscheduled = m.unscheduled
                  /\ n.sched_priority = m.sched_priority
                  /\ MessageOutReset(n) = n
                  /\ users' = users]_vars

\* A message of three packets was reset after a grant and after two of its
\* packets had been sent: it is back at its head, with granted at unscheduled.
C17_Witness ==
    /\ nresets = 1
    /\ msgout[1].length = 3 * HOMA_MAX_DATA_PER_PACKET
    /\ msgout[1].sched_priority \in GrantPriorities
    /\ max_orig[1] = HOMA_MAX_DATA_PER_PACKET
    /\ msgout[1].next_offset = 0
    /\ msgout[1].next_packet = 1
    /\ msgout[1].granted = rtt_bytes

(***************************************************************************)
(* SpecErr: one RPC of two packets, where ip_queue_xmit may fail.  The     *)
(* sender thread, grants, the retransmitter, the pacer, the IP stack and   *)
(* the clock are interleaved.                                              *)
(***************************************************************************)
MaxXmitErrors == 1

InitErr ==
    /\ now = 0
    /\ link_idle_time = 0
    /\ IdleQuiet
    /\ msgout = [r \in RPCS |-> IF r = 1 THEN MessageOutInit(OneLength)
                                 ELSE NoMessage]
    /\ dont_throttle = FALSE
    /\ SendersQuiet
    /\ ip_errors = MaxXmitErrors

NextErr == Tick \/ XmitNext \/ GrantNext \/ ResendNext \/ PacerNext \/ IpNext

SpecErr == InitErr /\ [][NextErr]_vars

\* C20: every data packet handed to ip_queue_xmit, by homa_xmit_data in a
\* user thread or in the pacer or by homa_resend_data, advances
\* link_idle_time once, in the same step, by the wire time of its bytes
\* (header, payload and HOMA_WIRE_OVERHEAD) from max(link_idle_time, now),
\* whether ip_queue_xmit succeeded or returned an error; no other step
\* changes link_idle_time.
C20_EverySubmissionAdvances ==
    [][LET submitted == last_pkt'.rpc # 0 /\ ~last_pkt'.shared
       IN  /\ submitted =>
                  LET size == msgout[last_pkt'.rpc]
                                  .packets[BufferAt(last_pkt'.offset)].size
                  IN  link_idle_time' =
                          Max(link_idle_time, now)
                              + ((DATA_HEADER_LENGTH + size + HOMA_WIRE_OVERHEAD)
                                     * cycles_per_kbyte) \div 1000
           /\ ~submitted => link_idle_time' = link_idle_time
           /\ (ip_errors' # ip_errors) => (submitted /\ last_pkt'.err)
           /\ (\E r \in RPCS : \E i \in DOMAIN users[r] :
                   users'[r][i] > users[r][i]) => submitted]_vars

\* ip_queue_xmit has just returned an error for a packet the pacer sent,
\* after the clock had passed link_idle_time: link_idle_time is the wire
\* time of that packet past the clock.
C20_Witness ==
    /\ last_pkt.rpc = 1
    /\ last_pkt.err
    /\ ~last_pkt.shared
    /\ last_pkt.retransmit = 0
    /\ pc[PACER] = "xmit_loop"
    /\ cur = 1
    /\ users[1][BufferAt(last_pkt.offset)] = 1
    /\ now > 0
    /\ link_idle_time = now + TickCycles

(***************************************************************************)
(* SpecInit: one call of homa_message_out_init, one step per buffer        *)
(* allocation and per copy from user space, either of which may fail.      *)
(* ini.skbs holds the reference count of every buffer the call allocated,  *)
(* ini.linked the buffers on msgout->packets, in list order.               *)
(***************************************************************************)
InitLengths ==
    {0, 1, HOMA_MAX_DATA_PER_PACKET, HOMA_MAX_DATA_PER_PACKET + 1, 3000,
     3 * HOMA_MAX_DATA_PER_PACKET, HOMA_MAX_MESSAGE_LENGTH,
     HOMA_MAX_MESSAGE_LENGTH + 1}

InitFresh ==
    /\ now = 0
    /\ link_idle_time = 0
    /\ IdleQuiet
    /\ msgout = [r \in RPCS |-> NoMessage]
    /\ dont_throttle = FALSE
    /\ SendersQuiet
    /\ ip_errors = 0

initframe == <<now, link_idle_time, idlevars, listvars, sock, pc, cur, rs,
               pacervars, dont_throttle, resent_packets, ip_errors,
               data_xmit_errors, ctlvars, last_pkt,
               histvars>>

\* Entry: the fields are set, then the test of len.
InitCall ==
    /\ ini.pc = "idle"
    /\ \E len \in InitLengths :
          ini' = [pc |-> IF len > HOMA_MAX_MESSAGE_LENGTH THEN "error"
                         ELSE "loop",
                  len |-> len,
                  bytes_left |-> len,
                  msg |-> [length |-> len, packets |-> <<>>,
                           next_packet |-> NULL, next_offset |-> 0,
                           unscheduled |-> rtt_bytes,
                           granted |-> IF rtt_bytes > len THEN len
                                       ELSE rtt_bytes,
                           sched_priority |-> 0],
                  skbs |-> <<>>,
                  linked |-> <<>>,
                  err |-> IF len > HOMA_MAX_MESSAGE_LENGTH THEN "EINVAL"
                          ELSE "none",
                  destroys |-> 0]
    /\ UNCHANGED <<msgout, users, initframe>>

\* alloc_skb, which may fail.
InitAlloc ==
    /\ ini.pc = "loop"
    /\ ini.bytes_left > 0
    /\ \E ok \in BOOLEAN :
          ini' = IF ok
                 THEN [ini EXCEPT !.skbs = Append(@, 1), !.pc = "copy"]
                 ELSE [ini EXCEPT !.err = "ENOMEM", !.pc = "error"]
    /\ UNCHANGED <<msgout, users, initframe>>

\* The header, then skb_add_data_nocache, which may fail (the buffer is
\* freed); after a copy the buffer is linked at the end of the list.
InitCopy ==
    LET skb == Len(ini.skbs)
        cur_size == IF HOMA_MAX_DATA_PER_PACKET > ini.bytes_left
                    THEN ini.bytes_left
                    ELSE HOMA_MAX_DATA_PER_PACKET
    IN  /\ ini.pc = "copy"
        /\ \E ok \in BOOLEAN :
              ini' = IF ok
                     THEN [ini EXCEPT
                              !.msg.packets =
                                  Append(@, [offset |-> ini.msg.length
                                                          - ini.bytes_left,
                                             size |-> cur_size]),
                              !.linked = Append(@, skb),
                              !.bytes_left = @ - HOMA_MAX_DATA_PER_PACKET,
                              !.pc = "loop"]
                     ELSE [ini EXCEPT !.skbs[skb] = @ - 1,
                                      !.err = "EFAULT",
                                      !.pc = "error"]
        /\ UNCHANGED <<msgout, users, initframe>>

\* The loop is over: next_packet = packets; return 0.
InitReturn ==
    /\ ini.pc = "loop"
    /\ ini.bytes_left <= 0
    /\ LET m == [ini.msg EXCEPT
                    !.next_packet = IF ini.msg.packets = <<>> THEN NULL ELSE 1]
       IN  /\ ini' = [ini EXCEPT !.msg = m, !.pc = "done"]
           /\ msgout' = [msgout EXCEPT ![1] = m]
           /\ users' = [users EXCEPT ![1] = [i \in 1 .. Len(m.packets) |-> 1]]
    /\ UNCHANGED initframe

DestroyAll(skbs, linked) == [i \in DOMAIN skbs |-> skbs[i] - 1]

\* homa_message_out_destroy: kfree_skb of every buffer on the list.
Destroy(skbs, linked) ==
    [i \in DOMAIN skbs |->
        skbs[i] - Cardinality({j \in DOMAIN linked : linked[j] = i})]

ListAfterDestroyKept(list) == list

\* homa_message_out_destroy: msgout->packets = NULL.
ListAfterDestroy(list) == <<>>

\* error: homa_message_out_destroy(msgout); return err.
InitError ==
    /\ ini.pc = "error"
    /\ ini' = IF ini.msg.length < 0
              THEN [ini EXCEPT !.pc = "failed"]
              ELSE [ini EXCEPT !.skbs = Destroy(ini.skbs, ini.linked),
                               !.linked = ListAfterDestroy(@),
                               !.msg.packets = ListAfterDestroy(@),
                               !.pc = "failed"]
    /\ UNCHANGED <<msgout, users, initframe>>

NextInit == InitCall \/ InitAlloc \/ InitCopy \/ InitReturn \/ InitError

SpecInit == InitFresh /\ [][NextInit]_vars

\* The number of packets the specification gives a message of len bytes.
CeilPackets(len) ==
    (len + HOMA_MAX_DATA_PER_PACKET - 1) \div HOMA_MAX_DATA_PER_PACKET

\* The fragmentation of a message with at least one byte: ceil(len / MAX)
\* packets, packet i at offset i * MAX, full but for the last one, which
\* carries the remainder.
FragmentsOfPositive ==
    (ini.pc = "done" /\ ini.len > 0) =>
        LET p == ini.msg.packets
            n == Len(p)
        IN  /\ n = CeilPackets(ini.len)
            /\ \A i \in 1 .. n :
                  /\ p[i].offset = (i - 1) * HOMA_MAX_DATA_PER_PACKET
                  /\ p[i].size = IF i < n THEN HOMA_MAX_DATA_PER_PACKET
                                 ELSE ini.len - (n - 1) * HOMA_MAX_DATA_PER_PACKET
            /\ ini.msg.next_packet = 1

\* C15: after a successful homa_message_out_init the message holds
\* max(1, ceil(len / HOMA_MAX_DATA_PER_PACKET)) packets (one packet of
\* zero bytes when len = 0), packet i at offset i * HOMA_MAX_DATA_PER_PACKET,
\* and the last packet carries len mod HOMA_MAX_DATA_PER_PACKET bytes
\* (HOMA_MAX_DATA_PER_PACKET when len is a positive multiple of it).
C15_Fragmentation ==
    ini.pc = "done" =>
        LET p == ini.msg.packets
            n == Len(p)
        IN  /\ n >= 1
            /\ n = IF ini.len = 0 THEN 1 ELSE CeilPackets(ini.len)
            /\ \A i \in 1 .. n :
                  p[i].offset = (i - 1) * HOMA_MAX_DATA_PER_PACKET
            /\ p[n].size = IF ini.len > 0
                              /\ ini.len % HOMA_MAX_DATA_PER_PACKET = 0
                           THEN HOMA_MAX_DATA_PER_PACKET
                           ELSE ini.len % HOMA_MAX_DATA_PER_PACKET

\* C16: homa_message_out_init fails with EINVAL for a message longer than
\* HOMA_MAX_MESSAGE_LENGTH (before any allocation), with ENOMEM when an
\* allocation fails and with EFAULT when a copy fails, at whichever packet;
\* when it has failed every buffer it allocated has been released exactly
\* once and the packet list is empty.  No buffer is ever released twice.
C16_FailureReleasesAll ==
    /\ [](\A i \in DOMAIN ini.skbs : ini.skbs[i] \in {0, 1})
    /\ [](ini.pc = "failed" =>
            /\ ini.err \in {"EINVAL", "ENOMEM", "EFAULT"}
            /\ (ini.err = "EINVAL") <=> (ini.len > HOMA_MAX_MESSAGE_LENGTH)
            /\ ini.err = "EINVAL" => ini.skbs = <<>>
            /\ \A i \in DOMAIN ini.skbs : ini.skbs[i] = 0
            /\ ini.msg.packets = <<>>
            /\ ini.msg.next_packet = NULL
            /\ msgout[1] = NoMessage)
    /\ [][/\ (ini.pc = "loop" /\ ini'.pc = "error") => ini'.err = "ENOMEM"
          /\ (ini.pc = "copy" /\ ini'.pc = "error") => ini'.err = "EFAULT"
          /\ (ini.pc = "idle" /\ ini'.pc = "error") => ini'.err = "EINVAL"
          /\ ini'.pc = "done" => ini'.err = "none"]_vars

\* The copy of the third packet failed: two buffers were on the list, the
\* third had been freed by the copy's own error path.
C16_Witness ==
    /\ ini.pc = "failed"
    /\ ini.err = "EFAULT"
    /\ Len(ini.skbs) = 3
    /\ \A i \in 1 .. 3 : ini.skbs[i] = 0

(***************************************************************************)
(* SpecResend: homa_resend_data called with any range over a message of    *)
(* three packets, the last one short: ranges that are empty or reversed,   *)
(* that lie inside one packet, that span packets and that reach beyond the *)
(* message.  The sender thread, grants and the IP stack are interleaved,   *)
(* so that some buffers are in flight when the retransmitter meets them.   *)
(***************************************************************************)
ResendLength == 2 * HOMA_MAX_DATA_PER_PACKET + throttle_min_bytes

ResendOffsets ==
    {0, 700, HOMA_MAX_DATA_PER_PACKET, 2 * HOMA_MAX_DATA_PER_PACKET,
     ResendLength, ResendLength + HOMA_MAX_DATA_PER_PACKET}

ResendRanges == {<<s, e, 5>> : s \in ResendOffsets, e \in ResendOffsets}

InitResend ==
    /\ now = 0
    /\ link_idle_time = 0
    /\ IdleQuiet
    /\ msgout = [r \in RPCS |-> IF r = 1 THEN MessageOutInit(ResendLength)
                                 ELSE NoMessage]
    /\ dont_throttle = FALSE
    /\ SendersQuiet
    /\ ip_errors = 0

ResendBeginAny(r) == ResendEnter(r, ResendRanges)

NextResend ==
    \/ XmitNext
    \/ GrantNext
    \/ IpNext
    \/ \E r \in RPCS : ResendBeginAny(r)
    \/ \E r \in RPCS : ResendBefore(r)
    \/ \E r \in RPCS : ResendReturn(r)
    \/ \E r \in RPCS : ResendSkip(r)
    \/ \E r \in RPCS : ResendSend(r)

SpecResend == InitResend /\ [][NextResend]_vars

\* [offset, offset + HOMA_MAX_DATA_PER_PACKET) of buffer skb and the range
\* [start, end) of the call have a byte in common.
Intersects(r, skb) ==
    LET off == msgout[r].packets[skb].offset
    IN  Max(off, rs[r].start)
            < Min(off + HOMA_MAX_DATA_PER_PACKET, rs[r].end)

\* One step of homa_resend_data for rpc r does what C18 says: a packet it
\* emits is the buffer under the cursor, unshared, intersecting the range,
\* below end, sent as a retransmission at the call's priority and counted
\* once; the cursor only moves forward; it passes over no unshared buffer
\* that intersects the range without emitting it; it counts nothing else.
ResendStepRight(r) ==
    LET skb == rs[r].skb
        emitted == /\ last_pkt'.rpc = r
                   /\ last_pkt'.retransmit = 1
                   /\ ~last_pkt'.shared
    IN  pc[r] = "resend_loop" =>
            /\ emitted =>
                   /\ skb # NULL
                   /\ last_pkt'.offset = msgout[r].packets[skb].offset
                   /\ users[r][skb] = 1
                   /\ rs[r].start < rs[r].end
                   /\ Intersects(r, skb)
                   /\ last_pkt'.offset < rs[r].end
                   /\ last_pkt'.priority = rs[r].priority
                   /\ resent_packets' = resent_packets + 1
            /\ ~emitted => resent_packets' = resent_packets
            /\ (rs'[r].skb # skb /\ rs'[r].skb # NULL) => rs'[r].skb > skb
            /\ (rs'[r] # rs[r] /\ skb # NULL /\ users[r][skb] = 1
                   /\ Intersects(r, skb)) => emitted

\* C18: homa_resend_data(rpc, start, end, priority) emits, in ascending
\* offset order, exactly the unshared packets whose range [offset, offset +
\* HOMA_MAX_DATA_PER_PACKET) intersects [start, end), each with retransmit =
\* 1 and the given priority; it emits no packet with offset >= end and
\* nothing when the range is empty, and resent_packets grows by one per
\* packet emitted.
C18_ResendExactlyRange == [][\A r \in RPCS : ResendStepRight(r)]_vars

\* What C18 says holds of every call whose range has a byte: start < end.
ResendRightWhenNonEmpty ==
    [][\A r \in RPCS : rs[r].start < rs[r].end => ResendStepRight(r)]_vars

\* A call with an empty range has emitted a packet.
EmptyRangeEmits ==
    /\ pc[1] = "resend_loop"
    /\ rs[1].start >= rs[1].end
    /\ last_pkt.rpc = 1
    /\ last_pkt.retransmit = 1
    /\ ~last_pkt.shared
    /\ resent_packets = 1

\* C21: when ip_queue_xmit fails for a packet of homa_xmit_data,
\* data_xmit_errors grows by one and the sender goes on as after a success:
\* next_packet and next_offset have moved past the packet, the thread is
\* still in the loop (so the later granted packets are sent), the throttled
\* list and the locks are as they were, and the packets homa_xmit_data
\* hands over in one call have increasing offsets, so the failed packet is
\* not submitted again in that call.  No other step changes
\* data_xmit_errors.
C21_ErrorOnlyCounted ==
    [][/\ \A r \in RPCS :
             (last_pkt'.rpc = r /\ last_pkt'.retransmit = 0
                /\ ~last_pkt'.shared) =>
                 /\ last_pkt'.offset = msgout[r].next_offset
                 /\ msgout'[r] = XmitAdvance(msgout[r])
                 /\ msgout'[r].next_offset > last_pkt'.offset
                 /\ pc' = pc
                 /\ sock' = sock
                 /\ cur' = cur
                 /\ throttled_rpcs' = throttled_rpcs
                 /\ throttled_links' = throttled_links
                 /\ throttle_lock' = throttle_lock
                 /\ data_xmit_errors' =
                        data_xmit_errors + (IF last_pkt'.err THEN 1 ELSE 0)
                 /\ last_pkt'.err =>
                        users'[r][BufferAt(last_pkt'.offset)] = 1
       /\ ~last_pkt'.err => data_xmit_errors' = data_xmit_errors
       /\ \A t \in THREADS :
             (pc[t] = "xmit_loop" /\ pc'[t] = "xmit_loop" /\ RpcOf(t) # NULL
                /\ cur' = cur) =>
                 msgout'[RpcOf(t)].next_offset >= msgout[RpcOf(t)].next_offset
      ]_vars

\* ip_queue_xmit has just failed for the first packet of a message in the
\* sender thread's homa_xmit_data: the error is counted, the buffer is not
\* in flight, and the loop is about to send the packet at offset 1400.
C21_Witness ==
    /\ last_pkt.rpc = 1
    /\ last_pkt.err
    /\ last_pkt.retransmit = 0
    /\ last_pkt.offset = 0
    /\ data_xmit_errors = 1
    /\ users[1][1] = 1
    /\ pc[1] = "xmit_loop"
    /\ msgout[1].next_offset = HOMA_MAX_DATA_PER_PACKET
    /\ msgout[1].next_packet = 2
    /\ XmitMore(msgout[1])
    /\ ~MustThrottle(msgout[1], now, link_idle_time, dont_throttle)

(***************************************************************************)
(* homa_xmit_control and __homa_xmit_control, one step per call.  ctl      *)
(* holds the last call: the RPC, the value returned, the number of buffers *)
(* handed to ip_queue_xmit, the priority and length of that buffer, and    *)
(* the packet type INC_METRIC(packets_sent[h->type - DATA]) read.          *)
(***************************************************************************)
MaxControls == 1

\* The lengths of the contents passed: a header shorter than
\* HOMA_MAX_HEADER, and one of that length.
ControlLengths == {HOMA_MAX_HEADER - 20, HOMA_MAX_HEADER}

\* What ip_queue_xmit may return.
IpResults == {"OK", "ENETDOWN", "EHOSTUNREACH"}

\* skb_put(length), then the zero padding of extra_bytes when positive.
ControlPadded(length) ==
    LET extra_bytes == HOMA_MAX_HEADER - length
    IN  IF extra_bytes > 0 THEN length + extra_bytes ELSE length

ControlErrorsAlways(n, result) == n + 1

\* control_xmit_errors after ip_queue_xmit returned result.
ControlErrorsAfter(n, result) == IF result # "OK" THEN n + 1 ELSE n

IdleAfterControlPaced(idle, clock, bytes) == NewIdle(idle, clock, bytes)

\* link_idle_time after a control packet: homa_update_idle_time is not
\* called.
IdleAfterControl(idle, clock, bytes) == idle

\* h->type as read after kfree_skb(skb): h points into the buffer, which is
\* freed by then when nothing else holds a reference, and the read then
\* gives the type or whatever the memory holds.
TypeRead(freed) == IF freed THEN {"type", "any"} ELSE {"type"}

\* History: the NIC queue and the throttled list as they are at the call.
ControlSees(r) ==
    [backed_up |-> (now + max_nic_queue_cycles) < link_idle_time,
     throttled |-> throttled_links[r]]

XmitControl(r) ==
    /\ msgout[r].length >= 0
    /\ ctl.calls < MaxControls
    /\ \E length \in ControlLengths, alloc_ok \in BOOLEAN,
          result \in IpResults, released \in BOOLEAN :
          IF ~alloc_ok
          THEN /\ ctl' = [calls |-> ctl.calls + 1, rpc |-> r,
                          result |-> "ENOBUFS", submitted |-> 0,
                          priority |-> 0, bytes |-> 0, counted |-> "none",
                          backed_up |-> ControlSees(r).backed_up,
                          throttled |-> ControlSees(r).throttled]
               /\ UNCHANGED <<control_xmit_errors, link_idle_time>>
          ELSE \E type \in TypeRead(result # "OK" \/ released) :
               /\ ctl' = [calls |-> ctl.calls + 1, rpc |-> r,
                          result |-> result, submitted |-> 1,
                          priority |-> max_prio,
                          bytes |-> ControlPadded(length),
                          counted |-> type,
                          backed_up |-> ControlSees(r).backed_up,
                          throttled |-> ControlSees(r).throttled]
               /\ control_xmit_errors' =
                      ControlErrorsAfter(control_xmit_errors, result)
               /\ link_idle_time' =
                      IdleAfterControl(link_idle_time, now,
                                       ControlPadded(length))
    /\ last_pkt' = NoPacket
    /\ UNCHANGED <<now, idlevars, msgout, listvars, sock, pc, cur, rs,
                   pacervars, dont_throttle, users, resent_packets,
                   ip_errors, ini, data_xmit_errors, histvars>>

ControlNext == \E r \in RPCS : XmitControl(r)

(***************************************************************************)
(* SpecCtl: SpecXmit with calls of homa_xmit_control at any moment.        *)
(***************************************************************************)
NextCtl == NextXmit \/ ControlNext

SpecCtl == InitXmit /\ [][NextCtl]_vars

\* C22: homa_xmit_control hands its packet to ip_queue_xmit whatever
\* link_idle_time and the throttled list are (in every state the call can
\* be made and submit its packet; it is never put off or queued), and on
\* every outcome it leaves link_idle_time, the throttled list and every
\* RPC's outbound message (next_offset, next_packet, granted) as they were.
C22_ControlNotPaced ==
    /\ [][ctl'.calls # ctl.calls =>
            /\ link_idle_time' = link_idle_time
            /\ throttled_rpcs' = throttled_rpcs
            /\ throttled_links' = throttled_links
            /\ msgout' = msgout
            /\ pc' = pc
            /\ ctl'.result # "ENOBUFS" => ctl'.submitted = 1]_vars
    /\ [](ctl.calls < MaxControls =>
            ENABLED (XmitControl(1) /\ ctl'.result = "OK"
                        /\ ctl'.submitted = 1))

\* A control packet was sent for an RPC that was on the throttled list, with
\* the NIC queue longer than max_nic_queue_cycles, and data is still held
\* back.
C22_Witness ==
    /\ ctl.rpc = 1
    /\ ctl.result = "OK"
    /\ ctl.submitted = 1
    /\ ctl.backed_up
    /\ ctl.throttled
    /\ throttled_rpcs = <<1>>
    /\ msgout[1].next_offset < msgout[1].granted
    /\ msgout[1].next_packet # NULL

\* C23: __homa_xmit_control returns ENOBUFS without handing anything to
\* ip_queue_xmit when alloc_skb fails; when ip_queue_xmit fails it returns
\* that error and control_xmit_errors grows by one; otherwise it returns 0
\* after handing over one packet, at priority max_prio and HOMA_MAX_HEADER
\* bytes long.
C23_ControlOutcomes ==
    [][ctl'.calls # ctl.calls =>
          /\ ctl'.calls = ctl.calls + 1
          /\ ctl'.result \in {"OK", "ENOBUFS"} \cup IpResults
          /\ ctl'.result = "ENOBUFS" =>
                 /\ ctl'.submitted = 0
                 /\ control_xmit_errors' = control_xmit_errors
          /\ ctl'.result \notin {"OK", "ENOBUFS"} =>
                 /\ ctl'.submitted = 1
                 /\ control_xmit_errors' = control_xmit_errors + 1
          /\ ctl'.result = "OK" =>
                 /\ ctl'.submitted = 1
                 /\ ctl'.priority = max_prio
                 /\ ctl'.bytes = HOMA_MAX_HEADER
                 /\ control_xmit_errors' = control_xmit_errors]_vars

\* ip_queue_xmit failed with ENETDOWN: the caller got the error and the
\* metric counts it.
C23_Witness ==
    /\ ctl.calls = 1
    /\ ctl.result = "ENETDOWN"
    /\ ctl.submitted = 1
    /\ control_xmit_errors = 1

(***************************************************************************)
(* SpecLife: SpecInit, followed by calls of homa_message_out_destroy on    *)
(* the message, whether homa_message_out_init succeeded or failed.         *)
(***************************************************************************)
MaxDestroys == 2

\* homa_message_out_destroy(msgout), a whole call.
DestroyCall ==
    /\ ini.pc \in {"done", "failed"}
    /\ ini.destroys < MaxDestroys
    /\ ini' = IF ini.msg.length < 0
              THEN [ini EXCEPT !.destroys = @ + 1]
              ELSE [ini EXCEPT !.skbs = Destroy(ini.skbs, ini.linked),
                               !.linked = ListAfterDestroy(@),
                               !.msg.packets = ListAfterDestroy(@),
                               !.destroys = @ + 1]
    /\ IF ini.pc = "done"
       THEN /\ msgout' = [msgout EXCEPT ![1] = ini'.msg]
            /\ users' = [users EXCEPT ![1] = ini'.skbs]
       ELSE UNCHANGED <<msgout, users>>
    /\ UNCHANGED initframe

NextLife == NextInit \/ DestroyCall

SpecLife == InitFresh /\ [][NextLife]_vars

\* C24: homa_message_out_destroy releases every buffer on the message's
\* packet list exactly once and leaves the list empty; a further call, or a
\* call after a failed homa_message_out_init (which has destroyed the
\* message already), releases nothing and changes nothing.  No buffer's
\* reference count ever goes below zero.
C24_DestroyOnce ==
    /\ [](\A i \in DOMAIN ini.skbs : ini.skbs[i] >= 0)
    /\ [][ini'.destroys # ini.destroys =>
            /\ DOMAIN ini'.skbs = DOMAIN ini.skbs
            /\ \A i \in DOMAIN ini.skbs :
                  ini'.skbs[i] =
                      IF \E j \in DOMAIN ini.linked : ini.linked[j] = i
                      THEN ini.skbs[i] - 1
                      ELSE ini.skbs[i]
            /\ ini'.msg.packets = <<>>
            /\ ini'.linked = <<>>
            /\ [ini'.msg EXCEPT !.packets = <<>>]
                   = [ini.msg EXCEPT !.packets = <<>>]
            /\ (ini.destroys >= 1 \/ ini.pc = "failed") =>
                   /\ ini'.skbs = ini.skbs
                   /\ ini'.msg = ini.msg
                   /\ msgout' = msgout
                   /\ users' = users
            /\ (ini.destroys = 0 /\ ini.pc = "done") =>
                   /\ Len(ini.linked) = Len(ini.msg.packets)
                   /\ \A i \in DOMAIN ini.skbs :
                         ini.skbs[i] = 1 /\ ini'.skbs[i] = 0]_vars

\* A message of three packets has been destroyed twice: each of its
\* buffers has been released once.
C24_Witness ==
    /\ ini.pc = "done"
    /\ ini.destroys = 2
    /\ Len(ini.skbs) = 3
    /\ \A i \in 1 .. 3 : ini.skbs[i] = 0
    /\ ini.msg.packets = <<>>
    /\ msgout[1].packets = <<>>

(***************************************************************************)
(* SpecTwo: Spec, with homa_message_out_reset of either RPC as well.       *)
(***************************************************************************)
ResetNext == \E r \in RPCS : Reset(r)

NextTwo == Next \/ ResetNext

SpecTwo == Init /\ [][NextTwo]_vars

\* The pacer reads the head of throttled_rpcs in this step
\* (list_first_or_null_rcu in homa_pacer_xmit finds an RPC).
PacerReadsHead == pc[PACER] = "spin" /\ pc'[PACER] = "lock_sock"

\* No RPC on the list has fewer remaining bytes than rpc h.
Shortest(h) ==
    \A i \in 1 .. Len(throttled_rpcs) :
        Remaining(msgout[h]) <= Remaining(msgout[throttled_rpcs[i]])

\* C25: whenever the pacer reads the head of throttled_rpcs, the head has
\* the smallest length - next_offset of the RPCs on the list, also after
\* user threads have sent packets of a listed RPC that is not the head,
\* after grants and after a reset of a listed RPC.
C25_HeadIsShortest ==
    [][PacerReadsHead => (cur' = Head(throttled_rpcs) /\ Shortest(cur'))]_vars

\* The same while no message has been reset and every RPC on the list still
\* has bytes to send: for the two messages of Spec the head is then the
\* shortest.
HeadShortestWhileUntouched ==
    [][(PacerReadsHead /\ nresets = 0
          /\ \A i \in 1 .. Len(throttled_rpcs) :
                Remaining(msgout[throttled_rpcs[i]]) > 0)
         => (cur' = Head(throttled_rpcs) /\ Shortest(cur'))]_vars

\* The pacer has taken a head that was reset while on the list and now has
\* more bytes to send than an RPC behind it, which still has bytes to send.
ResetHeadTaken ==
    /\ pc[PACER] = "lock_sock"
    /\ cur # NULL
    /\ nresets >= 1
    /\ \E i \in 1 .. Len(throttled_rpcs) :
          /\ Remaining(msgout[throttled_rpcs[i]]) < Remaining(msgout[cur])
          /\ Remaining(msgout[throttled_rpcs[i]]) > 0
          /\ ~Drained(msgout[throttled_rpcs[i]])

\* The entries of list other than rpc r, in their order.
Others(list, r) ==
    LET NotR(x) == x # r
    IN  SelectSeq(list, NotR)

\* The pacer is inside homa_pacer_xmit with the socket of rpc cur locked.
PacerHolds ==
    pc[PACER] \in {"xmit_loop", "add_check", "add_lock", "add_insert",
                   "add_wake",
                   "xmit_ret", "rm_lock", "rm_del"}

\* C26: a call of homa_pacer_xmit that finds the socket of the head not
\* owned runs homa_xmit_data on that RPC only: its steps change no other
\* RPC's message and emit no other RPC's packet, and the RPC is the one
\* read from the head until the call returns.  When the call returns, the
\* RPC is on the list if and only if it is not drained (next_offset <
\* granted and next_packet not null), an RPC taken off the list has its
\* links reset, the other entries are in the order they were in, and the
\* locks are released.
C26_PacerServesHead ==
    [][/\ PacerReadsHead => cur' = Head(throttled_rpcs)
       /\ (PacerHolds /\ pc'[PACER] # "test_exit") => cur' = cur
       /\ (PacerHolds /\ (pc'[PACER] # pc[PACER]
                             \/ (pc[PACER] = "xmit_loop"
                                    /\ last_pkt'.rpc = cur))) =>
              /\ sock[cur] = "bh"
              /\ pc[cur] = "idle"
              /\ \A r \in RPCS \ {cur} : msgout'[r] = msgout[r]
              /\ last_pkt'.rpc \in {0, cur}
              /\ pc'[PACER] # "test_exit" =>
                     Others(throttled_rpcs', cur) = Others(throttled_rpcs, cur)
       /\ (PacerHolds /\ pc'[PACER] = "test_exit") =>
              /\ pc[PACER] \in {"xmit_ret", "rm_del"}
              /\ msgout' = msgout
              /\ throttled_links'[cur] <=> ~Drained(msgout[cur])
              /\ throttled_links'[cur] <=>
                     (\E i \in 1 .. Len(throttled_rpcs') :
                         throttled_rpcs'[i] = cur)
              /\ Others(throttled_rpcs', cur) = Others(throttled_rpcs, cur)
              /\ Len(throttled_rpcs') =
                     Len(throttled_rpcs)
                         - (IF Drained(msgout[cur]) THEN 1 ELSE 0)
              /\ \A r \in RPCS \ {cur} :
                     throttled_links'[r] = throttled_links[r]
              /\ sock'[cur] = "free"
              /\ throttle_lock' # PACER
      ]_vars

\* The pacer holds throttle_lock and is about to take the drained head off
\* the list, on which another RPC waits behind it; the head's packet has
\* been sent.
C26_Witness ==
    /\ pc[PACER] = "rm_del"
    /\ cur = 2
    /\ throttled_rpcs = <<2, 1>>
    /\ Drained(msgout[2])
    /\ max_orig[2] = 0
    /\ ~Drained(msgout[1])


(***************************************************************************)
(* The pacer and a socket owned by user context.                           *)
(***************************************************************************)
\* What a step of the pacer on the owned branch leaves as it was: every
\* message, the list and its links, both locks, the clock of the link, the
\* buffers and the counters; no packet is visited.
OwnedStepSame ==
    /\ msgout' = msgout
    /\ throttled_rpcs' = throttled_rpcs
    /\ throttled_links' = throttled_links
    /\ link_idle_time' = link_idle_time
    /\ sock' = sock
    /\ throttle_lock' = throttle_lock
    /\ users' = users
    /\ data_xmit_errors' = data_xmit_errors
    /\ resent_packets' = resent_packets
    /\ last_pkt' = NoPacket

FairSpec ==
    /\ Init
    /\ [][Next]_vars
    /\ WF_vars(PacerNext \/ XmitRun(PACER))
    /\ \A r \in RPCS : WF_vars(XmitRun(r) \/ XmitReturn(r))
    /\ WF_vars(Tick)

\* The pacer sleeps in schedule() with no wake-up pending.
PacerAsleep == pc[PACER] = "schedule" /\ pacer_task = "INTERRUPTIBLE"

HeadOwnedByUser ==
    throttled_rpcs # <<>> /\ sock[Head(throttled_rpcs)] = "user"

InitPos ==
    /\ now = 0
    /\ link_idle_time = 0
    /\ IdleQuiet
    /\ \E len \in MsgLengths :
          msgout = [r \in RPCS |-> IF r = 1 THEN MessageOutInit(len)
                                   ELSE NoMessage]
    /\ dont_throttle = FALSE
    /\ SendersQuiet
    /\ ip_errors = MaxXmitErrors

SpecPos == InitPos /\ [][NextMsg]_vars

\* next_offset and next_packet of message m name the same position.
PositionConsistent(m) ==
    /\ m.next_offset % HOMA_MAX_DATA_PER_PACKET = 0 \/ m.next_offset = m.length
    /\ m.next_packet \in 0 .. Len(m.packets)
    /\ m.next_packet # NULL =>
           m.packets[m.next_packet].offset = m.next_offset
    /\ (m.next_packet = NULL) <=> (m.next_offset >= m.length)

\* C29: in every state of an initialized message, after any mix of sends,
\* skips of buffers in flight, transmit errors, retransmissions and resets,
\* next_offset is a multiple of HOMA_MAX_DATA_PER_PACKET or equals length,
\* next_packet is the packet whose header offset is next_offset, and
\* next_packet is null exactly when next_offset >= length.
C29_PositionConsistent ==
    \A r \in RPCS : msgout[r].length >= 0 => PositionConsistent(msgout[r])

\* The message of 1600 bytes stands at its second packet after a reset, a
\* failed transmission and a retransmission.
C29_Witness ==
    /\ msgout[1].length = HOMA_MAX_DATA_PER_PACKET + throttle_min_bytes
    /\ msgout[1].next_packet = 2
    /\ msgout[1].next_offset = HOMA_MAX_DATA_PER_PACKET
    /\ nresets > 0
    /\ data_xmit_errors > 0
    /\ resent_packets > 0

\* The same message past its short last packet: next_offset overshoots
\* length and next_packet is null.
PastShortLast ==
    /\ msgout[1].length = HOMA_MAX_DATA_PER_PACKET + throttle_min_bytes
    /\ msgout[1].next_packet = NULL
    /\ msgout[1].next_offset = 2 * HOMA_MAX_DATA_PER_PACKET
    /\ data_xmit_errors > 0

====
